---- MODULE Spec2Model ----
(***************************************************************************)
(* FontCore: core_filename_parts_parser and the style / slope normalizer   *)
(* of core_name_policies.                                                  *)
(*                                                                         *)
(* A Python str is modelled as a sequence of one-character strings, so     *)
(* "Ab-c" is <<"A","b","-","c">>.  Every function of the module is an      *)
(* operator computed the way the code computes it; the compiled regular    *)
(* expression _TOKEN_PATTERN is an ordered alternation whose alternatives  *)
(* are matched with the backtracking semantics of Python's re module.      *)
(* Positions are 1-based.                                                  *)
(***************************************************************************)
EXTENDS Naturals, Sequences, FiniteSets

VARIABLES
    input_name,       \* the str argument of the call
    strip_extension,  \* the keyword argument of split_family_subfamily / parse_filename
    pc,               \* "start", or the entry point that was called
    tokens,           \* return value of tokenize_pascal_case
    formatted_tokens, \* format_pascal_words' list handed to apply_spacing_rules
    words,            \* return value of format_pascal_words
    pair,             \* return value of split_family_subfamily: <<family, subfamily>>
    parsed,           \* return value of parse_filename: a ParsedName
    input_tokens,     \* the List[str] argument of apply_spacing_rules
    spaced_tokens,    \* return value of apply_spacing_rules
    subfamily_style,  \* first argument of normalize_style_and_slope_for_id1_id4
    slope,            \* its second argument
    options,          \* its keyword arguments
    normalized,       \* its return value: <<style, slope>>
    raised,           \* the exception the call ended with, "" when it returned
    font,             \* the font argument of is_variable_font
    font_mode,        \* its mode argument, a VariableFontMode
    analysis,         \* the VariableFontAnalysis of analyze_variable_font
    is_variable,      \* return value of is_variable_font
    files,            \* the file system: the absolute paths of its regular files
    collector_arguments, \* the arguments of collect_font_files
    collected,        \* return value of collect_font_files
    tracker,          \* an ErrorTracker
    ttx_name_table,   \* the children of a TTX <name> element
    original_table,   \* the name table as loaded
    returned_ids,     \* return values of the create_private_namerecord_ttx calls
    allocated         \* start and return value of allocate_private_name_id_ttx

vars ==
    <<input_name, strip_extension, pc, tokens, formatted_tokens, words, pair, parsed,
      input_tokens, spaced_tokens, subfamily_style, slope, options, normalized, raised,
      font, font_mode, analysis, is_variable, files, collector_arguments, collected,
      tracker, ttx_name_table, original_table, returned_ids, allocated>>

(***************************************************************************)
(* Bounds of the checked input space.                                      *)
(***************************************************************************)
MaxLen == 4

(***************************************************************************)
(* Character classes.                                                      *)
(***************************************************************************)
AsciiUpperSeq ==
    <<"A","B","C","D","E","F","G","H","I","J","K","L","M",
      "N","O","P","Q","R","S","T","U","V","W","X","Y","Z">>

AsciiLowerSeq ==
    <<"a","b","c","d","e","f","g","h","i","j","k","l","m",
      "n","o","p","q","r","s","t","u","v","w","x","y","z">>

\* [A-Z] of the regular expressions
AsciiUpper == {AsciiUpperSeq[i] : i \in 1..Len(AsciiUpperSeq)}

\* [a-z] of the regular expressions
AsciiLower == {AsciiLowerSeq[i] : i \in 1..Len(AsciiLowerSeq)}

\* \d of the regular expressions and str.isdigit, on ASCII
Digits == {"0","1","2","3","4","5","6","7","8","9"}

\* Non-ASCII cased letters: outside [A-Z] and [a-z], yet cased for
\* str.isupper / str.islower / str.upper / str.lower and alphabetic for
\* str.isalpha.  "E'" stands for U+00C9 and "e'" for U+00E9.
UnicodeUpper == {"E'"}

UnicodeLower == {"e'"}

\* characters str.strip() removes
Whitespace == {" "}

IsUpperChar(c) == c \in AsciiUpper \cup UnicodeUpper

IsLowerChar(c) == c \in AsciiLower \cup UnicodeLower

IsAlphaChar(c) == IsUpperChar(c) \/ IsLowerChar(c)

\* str.upper() of one character
UpperOf(c) ==
    IF c \in AsciiLower
    THEN AsciiUpperSeq[CHOOSE i \in 1..Len(AsciiLowerSeq) : AsciiLowerSeq[i] = c]
    ELSE IF c = "e'" THEN "E'" ELSE c

\* str.lower() of one character
LowerOf(c) ==
    IF c \in AsciiUpper
    THEN AsciiLowerSeq[CHOOSE i \in 1..Len(AsciiUpperSeq) : AsciiUpperSeq[i] = c]
    ELSE IF c = "E'" THEN "e'" ELSE c

(***************************************************************************)
(* str helpers.                                                            *)
(***************************************************************************)
\* s[i:j] of Python with 1-based inclusive bounds; empty when i > j
Slice(s, i, j) == [k \in 1..(IF j >= i THEN j - i + 1 ELSE 0) |-> s[i + k - 1]]

\* the character at position i, or "" outside the string
At(s, i) == IF i \in 1..Len(s) THEN s[i] ELSE ""

\* "".join(parts)
RECURSIVE Join(_)
Join(parts) == IF parts = <<>> THEN <<>> ELSE Head(parts) \o Join(Tail(parts))

\* c in s
Contains(s, c) == \E i \in 1..Len(s) : s[i] = c

\* str.isdigit(): non-empty and every character a digit
IsDigitStr(t) == Len(t) > 0 /\ \A i \in 1..Len(t) : t[i] \in Digits

\* str.isupper(): at least one cased character and no lowercase one
IsUpperStr(t) ==
    /\ \E i \in 1..Len(t) : IsUpperChar(t[i])
    /\ \A i \in 1..Len(t) : ~IsLowerChar(t[i])

\* str.islower(): at least one cased character and no uppercase one
IsLowerStr(t) ==
    /\ \E i \in 1..Len(t) : IsLowerChar(t[i])
    /\ \A i \in 1..Len(t) : ~IsUpperChar(t[i])

\* str.strip()
RECURSIVE LStrip(_)
LStrip(s) == IF s # <<>> /\ Head(s) \in Whitespace THEN LStrip(Tail(s)) ELSE s

RECURSIVE RStrip(_)
RStrip(s) ==
    IF s # <<>> /\ s[Len(s)] \in Whitespace THEN RStrip(SubSeq(s, 1, Len(s) - 1)) ELSE s

Strip(s) == RStrip(LStrip(s))

\* s.startswith(p) at position i
MatchesAt(s, i, p) ==
    /\ i + Len(p) - 1 <= Len(s)
    /\ \A k \in 1..Len(p) : s[i + k - 1] = p[k]

\* position of the first occurrence of p in s at or after i, 0 when there is none
RECURSIVE FindFrom(_, _, _)
FindFrom(s, i, p) ==
    IF i + Len(p) - 1 > Len(s) THEN 0
    ELSE IF MatchesAt(s, i, p) THEN i
    ELSE FindFrom(s, i + 1, p)

\* s.replace(old, new): non-overlapping occurrences, left to right
RECURSIVE Replace(_, _, _)
Replace(s, old, new) ==
    LET at == FindFrom(s, 1, old) IN
    IF at = 0 THEN s
    ELSE Slice(s, 1, at - 1) \o new \o Replace(Slice(s, at + Len(old), Len(s)), old, new)

\* s.split(sep) for a one-character separator: the list of pieces
RECURSIVE SplitOn(_, _)
SplitOn(s, sep) ==
    LET at == FindFrom(s, 1, <<sep>>) IN
    IF at = 0 THEN <<s>>
    ELSE <<Slice(s, 1, at - 1)>> \o SplitOn(Slice(s, at + 1, Len(s)), sep)

\* the length of the longest run of characters of class cls starting at i
RECURSIVE RunLen(_, _, _)
RunLen(s, i, cls) ==
    IF i \in 1..Len(s) /\ s[i] \in cls THEN 1 + RunLen(s, i + 1, cls) ELSE 0

Max(S) == CHOOSE m \in S : \A n \in S : n <= m

Min(S) == CHOOSE m \in S : \A n \in S : m <= n

(***************************************************************************)
(* _TOKEN_PATTERN: each alternative gives the length of its match at       *)
(* position i of s, 0 when it does not match there.                        *)
(***************************************************************************)
\* [&!*(){}\[\]?,;$\-%@'] in the lookahead of _CAPITALIZED_WORD
WordStopChars ==
    {"&", "!", "*", "(", ")", "{", "}", "[", "]", "?", ",", ";", "$", "-", "%", "@", "'"}

\* the one-character alternatives _AMPERSAND .. _AT (there is no right parenthesis)
PunctuationAtoms ==
    {"&", "!", "*", "(", "{", "[", "]", "}", "?", ",", ";", "$", "%", "@"}

\* mutant: the alternative is missing from the pattern
_ACRONYM_BEFORE_CAMEL_Missing(s, i) == 0

\* [A-Z]+(?=[A-Z][a-z]): greedy, backing off until the lookahead holds
_ACRONYM_BEFORE_CAMEL(s, i) ==
    LET run == RunLen(s, i, AsciiUpper)
        ok  == {k \in 1..run : /\ At(s, i + k) \in AsciiUpper
                               /\ At(s, i + k + 1) \in AsciiLower}
    IN IF ok = {} THEN 0 ELSE Max(ok)

\* \d+(?:\.\d+)* from position i: greedy, 0 when no digit stands at i
RECURSIVE DottedNumberLen(_, _)
DottedNumberLen(s, i) ==
    LET d == RunLen(s, i, Digits) IN
    IF d = 0 THEN 0
    ELSE IF At(s, i + d) = "." /\ RunLen(s, i + d + 1, Digits) > 0
         THEN d + 1 + DottedNumberLen(s, i + d + 1)
         ELSE d

\* mutant: the alternative is missing from the pattern
_SINGLE_CAP_NUMBER_Missing(s, i) == 0

\* (?<![A-Z])[A-Z]\d+(?:\.\d+)*
_SINGLE_CAP_NUMBER(s, i) ==
    IF /\ At(s, i - 1) \notin AsciiUpper
       /\ At(s, i) \in AsciiUpper
       /\ At(s, i + 1) \in Digits
    THEN 1 + DottedNumberLen(s, i + 1)
    ELSE 0

\* \d+(?:\.\d+)+ : at least one dotted group
_DECIMAL_NUMBER(s, i) ==
    LET d == RunLen(s, i, Digits)
        n == DottedNumberLen(s, i)
    IN IF d > 0 /\ n > d THEN n ELSE 0

\* the lookahead (?=[A-Z]|(?<![A-Z])[A-Z]\d|\d|[...]|$) evaluated at position j
WordLookahead(s, j) ==
    \/ At(s, j) \in AsciiUpper
    \/ (At(s, j - 1) \notin AsciiUpper /\ At(s, j) \in AsciiUpper /\ At(s, j + 1) \in Digits)
    \/ At(s, j) \in Digits
    \/ At(s, j) \in WordStopChars
    \/ j = Len(s) + 1

\* [a-z]+? followed by the lookahead, from position i: the shortest k that works
LazyLowerLen(s, i) ==
    LET run == RunLen(s, i, AsciiLower)
        ok  == {k \in 1..run : WordLookahead(s, i + k)}
    IN IF ok = {} THEN 0 ELSE Min(ok)

\* [A-Z]?[a-z]+?(?=...): the optional capital is tried first, then left out
_CAPITALIZED_WORD(s, i) ==
    IF At(s, i) \in AsciiUpper /\ LazyLowerLen(s, i + 1) > 0
    THEN 1 + LazyLowerLen(s, i + 1)
    ELSE LazyLowerLen(s, i)

\* [A-Z]{2,}
_ALL_CAPS_SEQUENCE(s, i) ==
    LET run == RunLen(s, i, AsciiUpper) IN IF run >= 2 THEN run ELSE 0

\* [A-Z]
_SINGLE_UPPERCASE(s, i) == IF At(s, i) \in AsciiUpper THEN 1 ELSE 0

\* \d+
_DIGITS(s, i) == RunLen(s, i, Digits)

\* &|!|\*|\(|\{|\[|\]|\}|\?|,|;|\$|%|@
PunctuationAtom(s, i) == IF At(s, i) \in PunctuationAtoms THEN 1 ELSE 0

\* the alternation: the first alternative that matches at i wins
_TOKEN_PATTERN(s, i) ==
    IF _ACRONYM_BEFORE_CAMEL(s, i) > 0 THEN _ACRONYM_BEFORE_CAMEL(s, i)
    ELSE IF _SINGLE_CAP_NUMBER(s, i) > 0 THEN _SINGLE_CAP_NUMBER(s, i)
    ELSE IF _DECIMAL_NUMBER(s, i) > 0 THEN _DECIMAL_NUMBER(s, i)
    ELSE IF _CAPITALIZED_WORD(s, i) > 0 THEN _CAPITALIZED_WORD(s, i)
    ELSE IF _ALL_CAPS_SEQUENCE(s, i) > 0 THEN _ALL_CAPS_SEQUENCE(s, i)
    ELSE IF _SINGLE_UPPERCASE(s, i) > 0 THEN _SINGLE_UPPERCASE(s, i)
    ELSE IF _DIGITS(s, i) > 0 THEN _DIGITS(s, i)
    ELSE PunctuationAtom(s, i)

\* re.finditer: the start of the first match at or after position i, 0 when none
RECURSIVE NextMatch(_, _)
NextMatch(s, i) ==
    IF i > Len(s) THEN 0
    ELSE IF _TOKEN_PATTERN(s, i) > 0 THEN i
    ELSE NextMatch(s, i + 1)

\* the loop of tokenize_pascal_case from last_end (0-based: the next unread
\* character is last_end + 1)
RECURSIVE TokenizeFrom(_, _)
TokenizeFrom(value, last_end) ==
    LET start == NextMatch(value, last_end + 1) IN
    IF start = 0
    THEN IF last_end < Len(value)
         THEN <<Slice(value, last_end + 1, Len(value))>>
         ELSE <<>>
    ELSE LET stop == start + _TOKEN_PATTERN(value, start) - 1
             unmatched == IF start - 1 > last_end
                          THEN <<Slice(value, last_end + 1, start - 1)>>
                          ELSE <<>>
         IN unmatched \o <<Slice(value, start, stop)>> \o TokenizeFrom(value, stop)

\* the matches alone, as re.findall gives them
RECURSIVE MatchesFrom(_, _)
MatchesFrom(value, last_end) ==
    LET start == NextMatch(value, last_end + 1) IN
    IF start = 0 THEN <<>>
    ELSE LET stop == start + _TOKEN_PATTERN(value, start) - 1
         IN <<Slice(value, start, stop)>> \o MatchesFrom(value, stop)

\* mutant: the unmatched spans between the matches are dropped
tokenize_pascal_case_MatchesOnly(value) == MatchesFrom(value, 0)

tokenize_pascal_case(value) == IF value = <<>> THEN <<>> ELSE TokenizeFrom(value, 0)

(***************************************************************************)
(* Token formatter.                                                        *)
(***************************************************************************)
\* the tuple of special characters that _format_token returns unchanged
FormatPreserved ==
    {"!", "*", "&", "(", "{", "[", "]", "}", "?", ",", ";", "$", "%", "@"}

\* token[0].upper() + token[1:].lower()
TitleCase(token) ==
    [k \in 1..Len(token) |-> IF k = 1 THEN UpperOf(token[k]) ELSE LowerOf(token[k])]

\* mutant: every token is title-cased, none is returned as it is
_format_token_AlwaysTitle(token) ==
    IF token = <<>> THEN token ELSE TitleCase(token)

_format_token(token) ==
    IF token = <<>> THEN token
    ELSE IF Len(token) = 1 /\ token[1] \in FormatPreserved THEN token
    ELSE IF IsUpperStr(token) THEN token
    ELSE IF IsLowerStr(token) THEN token
    ELSE IF At(token, 1) \in AsciiUpper /\ At(token, 2) \in Digits THEN token
    ELSE TitleCase(token)

\* token.isdigit() or re.match(r"^\d+(?:\.\d+)+$", token)
_is_numeric_token(token) ==
    /\ token # <<>>
    /\ \/ IsDigitStr(token)
       \/ (_DECIMAL_NUMBER(token, 1) > 0 /\ DottedNumberLen(token, 1) = Len(token))

\* token[0].isalpha()
_is_alphanumeric_token(token) == token # <<>> /\ IsAlphaChar(token[1])

(***************************************************************************)
(* Spacing rules.  The sets hold tokens; every member is one character.    *)
(***************************************************************************)
NO_SPACE == {<<"*">>, <<"@">>, <<"'">>}

LEADING_SPACE == {<<"(">>, <<"{">>, <<"[">>}

TRAILING_SPACE == {<<"!">>, <<"?">>, <<",">>, <<";">>, <<")">>, <<"]">>, <<"}">>}

\* mutant: the regular case (space between two words) is lost
NeedsSpaceBefore_NoRegularCase(toks, i) ==
    LET token == toks[i]
        prev_token == toks[i - 1]
    IN /\ i > 1
       /\ IF token \in NO_SPACE THEN FALSE
          ELSE IF token \in TRAILING_SPACE THEN FALSE
          ELSE IF token = <<"$">> \/ token = <<"%">>
               THEN ~_is_numeric_token(prev_token) /\ _is_alphanumeric_token(prev_token)
          ELSE IF token \in LEADING_SPACE THEN _is_alphanumeric_token(prev_token)
          ELSE FALSE

\* mutant: the NO_SPACE branches are missing, '*', '@' and the apostrophe
\* are spaced like words
NeedsSpaceBefore_NoSpaceAsRegular(toks, i) ==
    LET token == toks[i]
        prev_token == toks[i - 1]
    IN /\ i > 1
       /\ IF token \in TRAILING_SPACE THEN FALSE
          ELSE IF token = <<"$">> \/ token = <<"%">>
               THEN ~_is_numeric_token(prev_token) /\ _is_alphanumeric_token(prev_token)
          ELSE IF token \in LEADING_SPACE THEN _is_alphanumeric_token(prev_token)
          ELSE IF prev_token \in TRAILING_SPACE THEN FALSE
          ELSE IF prev_token \in LEADING_SPACE THEN FALSE
          ELSE IF prev_token = <<"$">> /\ _is_numeric_token(token) THEN FALSE
          ELSE IF prev_token = <<"%">> THEN FALSE
          ELSE TRUE

\* mutant: a LEADING_SPACE token gets a space before it after every token
NeedsSpaceBefore_LeadingAlways(toks, i) ==
    LET token == toks[i]
        prev_token == toks[i - 1]
    IN /\ i > 1
       /\ IF token \in NO_SPACE THEN FALSE
          ELSE IF token \in TRAILING_SPACE THEN FALSE
          ELSE IF token = <<"$">> \/ token = <<"%">>
               THEN ~_is_numeric_token(prev_token) /\ _is_alphanumeric_token(prev_token)
          ELSE IF token \in LEADING_SPACE THEN TRUE
          ELSE IF prev_token \in NO_SPACE THEN FALSE
          ELSE IF prev_token \in TRAILING_SPACE THEN FALSE
          ELSE IF prev_token \in LEADING_SPACE THEN FALSE
          ELSE IF prev_token = <<"$">> /\ _is_numeric_token(token) THEN FALSE
          ELSE IF prev_token = <<"%">> THEN FALSE
          ELSE TRUE

\* mutant: the branch "$ before numeric, no space" is missing
NeedsSpaceBefore_NoDollarNumericCase(toks, i) ==
    LET token == toks[i]
        prev_token == toks[i - 1]
    IN /\ i > 1
       /\ IF token \in NO_SPACE THEN FALSE
          ELSE IF token \in TRAILING_SPACE THEN FALSE
          ELSE IF token = <<"$">> \/ token = <<"%">>
               THEN ~_is_numeric_token(prev_token) /\ _is_alphanumeric_token(prev_token)
          ELSE IF token \in LEADING_SPACE THEN _is_alphanumeric_token(prev_token)
          ELSE IF prev_token \in NO_SPACE THEN FALSE
          ELSE IF prev_token \in TRAILING_SPACE THEN FALSE
          ELSE IF prev_token \in LEADING_SPACE THEN FALSE
          ELSE IF prev_token = <<"%">> THEN FALSE
          ELSE TRUE

\* mutant: the '$' and '%' branches are missing, the signs are spaced like words
NeedsSpaceBefore_MoneyAsRegular(toks, i) ==
    LET token == toks[i]
        prev_token == toks[i - 1]
    IN /\ i > 1
       /\ IF token \in NO_SPACE THEN FALSE
          ELSE IF token \in TRAILING_SPACE THEN FALSE
          ELSE IF token \in LEADING_SPACE THEN _is_alphanumeric_token(prev_token)
          ELSE IF prev_token \in NO_SPACE THEN FALSE
          ELSE IF prev_token \in TRAILING_SPACE THEN FALSE
          ELSE IF prev_token \in LEADING_SPACE THEN FALSE
          ELSE IF prev_token = <<"$">> /\ _is_numeric_token(token) THEN FALSE
          ELSE IF prev_token = <<"%">> THEN FALSE
          ELSE TRUE

\* mutant: a regular token gets its space also after a TRAILING_SPACE token
NeedsSpaceBefore_AfterTrailing(toks, i) ==
    LET token == toks[i]
        prev_token == toks[i - 1]
    IN /\ i > 1
       /\ IF token \in NO_SPACE THEN FALSE
          ELSE IF token \in TRAILING_SPACE THEN FALSE
          ELSE IF token = <<"$">>
               THEN ~_is_numeric_token(prev_token) /\ _is_alphanumeric_token(prev_token)
          ELSE IF token = <<"%">>
               THEN ~_is_numeric_token(prev_token) /\ _is_alphanumeric_token(prev_token)
          ELSE IF token \in LEADING_SPACE THEN _is_alphanumeric_token(prev_token)
          ELSE IF prev_token \in NO_SPACE THEN FALSE
          ELSE IF prev_token \in LEADING_SPACE THEN FALSE
          ELSE IF prev_token = <<"$">> /\ _is_numeric_token(token) THEN FALSE
          ELSE IF prev_token = <<"%">> THEN FALSE
          ELSE TRUE

\* needs_space_before of token toks[i]
NeedsSpaceBefore(toks, i) ==
    LET token == toks[i]
        prev_token == toks[i - 1]
    IN /\ i > 1
       /\ IF token \in NO_SPACE THEN FALSE
          ELSE IF token \in TRAILING_SPACE THEN FALSE
          ELSE IF token = <<"$">>
               THEN ~_is_numeric_token(prev_token) /\ _is_alphanumeric_token(prev_token)
          ELSE IF token = <<"%">>
               THEN ~_is_numeric_token(prev_token) /\ _is_alphanumeric_token(prev_token)
          ELSE IF token \in LEADING_SPACE THEN _is_alphanumeric_token(prev_token)
          ELSE IF prev_token \in NO_SPACE THEN FALSE
          ELSE IF prev_token \in TRAILING_SPACE THEN FALSE
          ELSE IF prev_token \in LEADING_SPACE THEN FALSE
          ELSE IF prev_token = <<"$">> /\ _is_numeric_token(token) THEN FALSE
          ELSE IF prev_token = <<"%">> THEN FALSE
          ELSE TRUE

\* mutant: the TRAILING_SPACE branch is missing
NeedsSpaceAfter_NoTrailingCase(toks, i) ==
    LET token == toks[i]
        next_token == toks[i + 1]
    IN /\ i < Len(toks)
       /\ IF token \in NO_SPACE THEN FALSE
          ELSE IF token = <<"$">> THEN FALSE
          ELSE IF token = <<"%">> THEN _is_alphanumeric_token(next_token)
          ELSE FALSE

\* mutant: '%' gets a space after it before every next token
NeedsSpaceAfter_PercentAlways(toks, i) ==
    LET token == toks[i]
        next_token == toks[i + 1]
    IN /\ i < Len(toks)
       /\ IF token \in NO_SPACE THEN FALSE
          ELSE IF token = <<"$">> THEN FALSE
          ELSE IF token = <<"%">> THEN TRUE
          ELSE IF token \in TRAILING_SPACE THEN next_token \notin NO_SPACE
          ELSE FALSE

\* needs_space_after of token toks[i]
NeedsSpaceAfter(toks, i) ==
    LET token == toks[i]
        next_token == toks[i + 1]
    IN /\ i < Len(toks)
       /\ IF token \in NO_SPACE THEN FALSE
          ELSE IF token = <<"$">> THEN FALSE
          ELSE IF token = <<"%">> THEN _is_alphanumeric_token(next_token)
          ELSE IF token \in TRAILING_SPACE THEN next_token \notin NO_SPACE
          ELSE FALSE

\* the token with its spacing baked in
SpacedToken(toks, i) ==
    (IF NeedsSpaceBefore(toks, i) THEN <<" ">> ELSE <<>>)
        \o toks[i]
        \o (IF NeedsSpaceAfter(toks, i) THEN <<" ">> ELSE <<>>)

\* mutant: the empty tokens are not filtered out
apply_spacing_rules_KeepEmpty(toks0) ==
    [i \in 1..Len(toks0) |-> SpacedToken(toks0, i)]

apply_spacing_rules(toks0) ==
    LET toks == SelectSeq(toks0, LAMBDA t : t # <<>>)
    IN [i \in 1..Len(toks) |-> SpacedToken(toks, i)]

(***************************************************************************)
(* format_pascal_words.                                                    *)
(***************************************************************************)
\* the merge loop from index i: a list of <<token, is_merged>>
RECURSIVE MergeFrom(_, _)
MergeFrom(segment_tokens, i) ==
    IF i > Len(segment_tokens) THEN <<>>
    ELSE IF /\ IsDigitStr(segment_tokens[i])
            /\ i + 1 <= Len(segment_tokens)
            /\ IsLowerStr(segment_tokens[i + 1])
         THEN <<<<segment_tokens[i] \o segment_tokens[i + 1], TRUE>>>>
                  \o MergeFrom(segment_tokens, i + 2)
         ELSE <<<<segment_tokens[i], FALSE>>>> \o MergeFrom(segment_tokens, i + 1)

\* mutant: no token is merged
MergeDigitLowercase_NoMerge(segment_tokens) ==
    [k \in 1..Len(segment_tokens) |-> <<segment_tokens[k], FALSE>>]

\* merged_tokens of one segment
MergeDigitLowercase(segment_tokens) == MergeFrom(segment_tokens, 1)

\* mutant: the lowercase-led branch is missing, every token is formatted
FormatSegment_AlwaysFormat(segment) ==
    LET merged_tokens == MergeDigitLowercase(tokenize_pascal_case(segment))
    IN [k \in 1..Len(merged_tokens) |->
           IF merged_tokens[k][2] THEN merged_tokens[k][1]
           ELSE _format_token(merged_tokens[k][1])]

\* segment_formatted built from the segment's merged_tokens
FormatMerged(segment, merged_tokens) ==
    IF segment # <<>> /\ IsLowerChar(segment[1])
    THEN [k \in 1..Len(merged_tokens) |-> merged_tokens[k][1]]
    ELSE [k \in 1..Len(merged_tokens) |->
             IF merged_tokens[k][2] THEN merged_tokens[k][1]
             ELSE _format_token(merged_tokens[k][1])]

\* segment_formatted of one segment
FormatSegment(segment) ==
    FormatMerged(segment, MergeDigitLowercase(tokenize_pascal_case(segment)))

\* mutant: the value is not split at its underscores
Segments_NoSplit(value) == SelectSeq(<<value>>, LAMBDA seg : seg # <<>>)

\* [seg for seg in value.split("_") if seg]
Segments(value) == SelectSeq(SplitOn(value, "_"), LAMBDA seg : seg # <<>>)

\* mutant: the merge loop runs once over the tokens of all segments
FormattedTokens_MergeAcross(segments) ==
    FormatMerged(Join(segments),
                 MergeDigitLowercase(Join([k \in 1..Len(segments) |->
                                               tokenize_pascal_case(segments[k])])))

\* formatted_tokens: the segments' formatted tokens, concatenated
RECURSIVE FormattedTokens(_)
FormattedTokens(segments) ==
    IF segments = <<>> THEN <<>>
    ELSE FormatSegment(Head(segments)) \o FormattedTokens(Tail(segments))

\* mutant: the spacing rules run on each segment, and a space joins the segments
RECURSIVE SpacedSegments(_)
SpacedSegments(segments) ==
    IF segments = <<>> THEN <<>>
    ELSE Join(apply_spacing_rules(FormatSegment(Head(segments))))
             \o (IF Len(segments) > 1 THEN <<" ">> ELSE <<>>)
             \o SpacedSegments(Tail(segments))

format_pascal_words_PerSegment(value) ==
    IF value = <<>> THEN <<>> ELSE Strip(SpacedSegments(Segments(value)))

format_pascal_words(value) ==
    IF value = <<>> THEN <<>>
    ELSE Strip(Join(apply_spacing_rules(FormattedTokens(Segments(value)))))

(***************************************************************************)
(* Exceptions.  A subscript raises IndexError outside the string, and a    *)
(* tuple assignment raises ValueError unless the counts agree; everything  *)
(* else the module does to a str (slices, str methods, re) returns.        *)
(***************************************************************************)
\* s[i] raises IndexError; i is 1-based here
IndexError(s, i) == i \notin 1..Len(s)

\* token[0] on the last line of _format_token, reached when none of the
\* returns above it was taken
_format_token_IndexError(token) ==
    /\ token # <<>>
    /\ ~(Len(token) = 1 /\ token[1] \in FormatPreserved)
    /\ ~IsUpperStr(token)
    /\ ~IsLowerStr(token)
    /\ ~(At(token, 1) \in AsciiUpper /\ At(token, 2) \in Digits)
    /\ IndexError(token, 1)

\* token[0] of _is_alphanumeric_token, behind its `if not token` return
_is_alphanumeric_token_IndexError(token) == token # <<>> /\ IndexError(token, 1)

\* the subscripts of apply_spacing_rules: tokens[i - 1] behind `i > 0`,
\* tokens[i + 1] behind `i + 1 < len(tokens)`, and the neighbours' token[0]
apply_spacing_rules_IndexError(toks0) ==
    LET toks == SelectSeq(toks0, LAMBDA t : t # <<>>) IN
    \E i \in 1..Len(toks) :
        \/ i > 1 /\ (IndexError(toks, i - 1)
                         \/ _is_alphanumeric_token_IndexError(toks[i - 1]))
        \/ i < Len(toks) /\ (IndexError(toks, i + 1)
                                 \/ _is_alphanumeric_token_IndexError(toks[i + 1]))

\* the subscripts of one round of the segment loop: segment[0] behind
\* `segment and`, and the _format_token calls
FormatMerged_IndexError(segment, merged_tokens) ==
    \/ segment # <<>> /\ IndexError(segment, 1)
    \/ /\ ~(segment # <<>> /\ IsLowerChar(segment[1]))
       /\ \E k \in 1..Len(merged_tokens) :
              ~merged_tokens[k][2] /\ _format_token_IndexError(merged_tokens[k][1])

FormatSegment_IndexError(segment) ==
    FormatMerged_IndexError(segment, MergeDigitLowercase(tokenize_pascal_case(segment)))

format_pascal_words_IndexError(value) ==
    /\ value # <<>>
    /\ \/ \E k \in 1..Len(Segments(value)) : FormatSegment_IndexError(Segments(value)[k])
       \/ apply_spacing_rules_IndexError(FormattedTokens(Segments(value)))

(***************************************************************************)
(* Family / subfamily split.                                               *)
(***************************************************************************)
\* the position of the last occurrence of character c in s, 0 when absent
LastIndexOf(s, c) ==
    IF Contains(s, c) THEN Max({i \in 1..Len(s) : s[i] = c}) ELSE 0

\* os.path.basename (posixpath): what follows the last "/"
Basename(p) == Slice(p, LastIndexOf(p, "/") + 1, Len(p))

\* os.path.splitext(p)[0] (posixpath): cut at the last dot, unless only dots
\* stand between the last "/" and it
SplitextRoot(p) ==
    LET sep == LastIndexOf(p, "/")
        dot == LastIndexOf(p, ".")
    IN IF dot > sep /\ \E k \in (sep + 1)..(dot - 1) : p[k] # "."
       THEN Slice(p, 1, dot - 1)
       ELSE p

\* mutant: the backslash is not replaced
sanitize_forbidden_characters_ColonOnly(name) == Replace(name, <<":">>, <<"_">>)

sanitize_forbidden_characters(name) ==
    Replace(Replace(name, <<":">>, <<"_">>), <<"\\">>, <<"_">>)

CFF2Infix == <<".", "C", "F", "F", "2", ".">>

CFF2Suffix == <<".", "C", "F", "F", "2">>

\* candidate.endswith(suffix)
EndsWith(s, suffix) ==
    Len(s) >= Len(suffix) /\ MatchesAt(s, Len(s) - Len(suffix) + 1, suffix)

_normalize_basename(name, strip) ==
    LET candidate0 == sanitize_forbidden_characters(Basename(name))
        candidate ==
            IF FindFrom(candidate0, 1, CFF2Infix) > 0
            THEN Replace(candidate0, CFF2Infix, <<".">>)
            ELSE IF EndsWith(candidate0, CFF2Suffix)
                 THEN Slice(candidate0, 1, Len(candidate0) - 5)
                 ELSE candidate0
    IN IF strip THEN SplitextRoot(candidate) ELSE candidate

\* mutant: base.rsplit("-", 1), the split at the last hyphen
_split_at_hyphen_Last(base) ==
    LET at == LastIndexOf(base, "-") IN
    IF at = 0 THEN <<base, <<>>>>
    ELSE <<Slice(base, 1, at - 1), Slice(base, at + 1, Len(base))>>

\* mutant: base.split("-"), a piece for every hyphen
_split_at_hyphen_All(base) ==
    IF FindFrom(base, 1, <<"-">>) = 0 THEN <<base, <<>>>> ELSE SplitOn(base, "-")

\* base.split("-", 1), or (base, "") without a hyphen
_split_at_hyphen(base) ==
    LET at == FindFrom(base, 1, <<"-">>) IN
    IF at = 0 THEN <<base, <<>>>>
    ELSE <<Slice(base, 1, at - 1), Slice(base, at + 1, Len(base))>>

\* mutant: the family is formatted from the whole base, not from its left part
split_family_subfamily_WholeBase(name, strip) ==
    LET base  == _normalize_basename(name, strip)
        right == _split_at_hyphen(base)[2]
    IN <<format_pascal_words(base),
         IF right # <<>> THEN format_pascal_words(right) ELSE <<>>>>

split_family_subfamily(name, strip) ==
    LET base  == _normalize_basename(name, strip)
        left  == _split_at_hyphen(base)[1]
        right == _split_at_hyphen(base)[2]
    IN <<format_pascal_words(left),
         IF right # <<>> THEN format_pascal_words(right) ELSE <<>>>>

\* how `left, right = _split_at_hyphen(base)` and the two format_pascal_words
\* calls of split_family_subfamily end: the exception's name, "" for none
split_family_subfamily_Raised(name, strip) ==
    LET values == _split_at_hyphen(_normalize_basename(name, strip)) IN
    IF Len(values) # 2 THEN "ValueError"
    ELSE IF \E k \in 1..2 : values[k] # <<>> /\ format_pascal_words_IndexError(values[k])
         THEN "IndexError"
         ELSE ""

\* parse_filename unpacks and formats with the same statements
parse_filename_Raised(name, strip) ==
    LET values == _split_at_hyphen(_normalize_basename(name, strip)) IN
    IF Len(values) # 2 THEN "ValueError"
    ELSE IF \E k \in 1..2 : values[k] # <<>> /\ format_pascal_words_IndexError(values[k])
         THEN "IndexError"
         ELSE ""

parse_filename(name, strip) ==
    LET base  == _normalize_basename(name, strip)
        left  == _split_at_hyphen(base)[1]
        right == _split_at_hyphen(base)[2]
    IN [original      |-> name,
        base          |-> base,
        family_raw    |-> left,
        subfamily_raw |-> right,
        family        |-> format_pascal_words(left),
        subfamily     |-> IF right # <<>> THEN format_pascal_words(right) ELSE <<>>]

(***************************************************************************)
(* core_name_policies: normalize_style_and_slope_for_id1_id4.  An          *)
(* Optional[str] is a str or None; a pattern \b(w1|w2|...)\b compiled with *)
(* re.I is the list of its words in lowercase.                             *)
(***************************************************************************)
\* Python's None: no str is made of a character "None"
None == <<"None">>

\* \w of a str pattern: letters, digits and the underscore
IsWordChar(c) == IsAlphaChar(c) \/ c \in Digits \/ c = "_"

\* str.lower()
Lower(s) == [k \in 1..Len(s) |-> LowerOf(s[k])]

\* str.title(): a letter is uppercased after a non-letter, lowercased after a letter
Title(s) ==
    [k \in 1..Len(s) |-> IF IsAlphaChar(At(s, k - 1)) THEN LowerOf(s[k]) ELSE UpperOf(s[k])]

\* " ".join(s.split()): no whitespace at the ends, every run of it one space
JoinSplit(s) ==
    LET t == Strip(s)
        keep == SelectSeq([k \in 1..Len(t) |-> k],
                          LAMBDA k : ~(t[k] \in Whitespace /\ At(t, k + 1) \in Whitespace))
    IN [k \in 1..Len(keep) |-> IF t[keep[k]] \in Whitespace THEN " " ELSE t[keep[k]]]

\* is_empty of core_string_utils
is_empty(value) == value = None \/ value = <<>> \/ Strip(value) = <<>>

\* normalize_empty of core_string_utils
normalize_empty(value) ==
    IF value = None THEN None
    ELSE IF Strip(value) # <<>> THEN Strip(value) ELSE None

DEFAULT_REGULAR_SYNONYMS_MODE == <<"r", "e", "g", "u", "l", "a", "r", "_", "o", "n", "l", "y">>

VALID_REGULAR_EQUIVALENTS ==
    {<<"R", "e", "g", "u", "l", "a", "r">>, <<"R", "o", "m", "a", "n">>, <<"P", "l", "a", "i", "n">>,
     <<"N", "o", "r", "m", "a", "l">>, <<"S", "t", "a", "n", "d", "a", "r", "d">>, <<"B", "o", "o", "k">>,
     <<"T", "e", "x", "t">>, <<"M", "e", "d", "i", "u", "m">>, <<"L", "i", "g", "h", "t">>}

\* strict=False: an invalid value is logged and dropped
validate_regular_equivalent(value) ==
    LET norm == normalize_empty(value) IN
    IF norm = None THEN None
    ELSE IF Title(norm) \notin VALID_REGULAR_EQUIVALENTS THEN None
    ELSE Title(norm)

RE_REGULAR == <<<<"r", "e", "g", "u", "l", "a", "r">>, <<"r", "o", "m", "a", "n">>>>

RE_ITALIC == <<<<"i", "t", "a", "l", "i", "c">>>>

RE_OBLIQUE == <<<<"o", "b", "l", "i", "q", "u", "e">>>>

RE_SLANTED == <<<<"s", "l", "a", "n", "t", "e", "d">>>>

RE_BOOK == <<<<"b", "o", "o", "k">>>>

RE_NORMAL == <<<<"n", "o", "r", "m", "a", "l">>>>

\* \bword\b under re.I at position i of text
WordAt(text, i, word) ==
    /\ ~IsWordChar(At(text, i - 1))
    /\ i + Len(word) - 1 <= Len(text)
    /\ Lower(Slice(text, i, i + Len(word) - 1)) = word
    /\ ~IsWordChar(At(text, i + Len(word)))

\* the length of pattern's match at position i, 0 when there is none: the
\* first alternative that matches
PatternAt(pattern, text, i) ==
    LET ok == {k \in 1..Len(pattern) : WordAt(text, i, pattern[k])}
    IN IF ok = {} THEN 0 ELSE Len(pattern[Min(ok)])

\* pattern.search(text) is not None
Search(pattern, text) == \E i \in 1..Len(text) : PatternAt(pattern, text, i) > 0

\* pattern.subn("", text)[0] from position i: every match is removed
RECURSIVE Subn(_, _, _)
Subn(pattern, text, i) ==
    IF i > Len(text) THEN <<>>
    ELSE IF PatternAt(pattern, text, i) > 0
         THEN Subn(pattern, text, i + PatternAt(pattern, text, i))
         ELSE <<text[i]>> \o Subn(pattern, text, i + 1)

\* <<new_text, count > 0>>
_strip_token(pattern, text) == <<JoinSplit(Subn(pattern, text, 1)), Search(pattern, text)>>

\* <<cleaned_style, slope>>: only the first of the three terms found is handled
_extract_slope_from_style(style) ==
    IF Search(RE_ITALIC, style)
    THEN <<_strip_token(RE_ITALIC, style)[1], <<"I", "t", "a", "l", "i", "c">>>>
    ELSE IF Search(RE_OBLIQUE, style)
    THEN <<_strip_token(RE_OBLIQUE, style)[1], <<"O", "b", "l", "i", "q", "u", "e">>>>
    ELSE IF Search(RE_SLANTED, style)
    THEN <<_strip_token(RE_SLANTED, style)[1], <<"S", "l", "a", "n", "t", "e", "d">>>>
    ELSE <<style, None>>

\* drop_book and drop_normal are "None", "True" or "False"
_apply_regular_synonym_mode(style, mode, drop_book, drop_normal) ==
    LET style1 == IF drop_book = "True" THEN _strip_token(RE_BOOK, style)[1] ELSE style
        style2 == IF drop_normal = "True" THEN _strip_token(RE_NORMAL, style1)[1] ELSE style1
        mode_lower == Lower(IF mode # <<>> THEN mode ELSE DEFAULT_REGULAR_SYNONYMS_MODE)
        stripped == _strip_token(RE_NORMAL, _strip_token(RE_BOOK, style2)[1])[1]
    IN IF drop_book = "None" /\ drop_normal = "None"
       THEN IF mode_lower = <<"l", "o", "o", "s", "e">> THEN stripped
            ELSE IF mode_lower = <<"c", "o", "n", "s", "e", "r", "v", "a", "t", "i", "v", "e">>
                 THEN IF Lower(Strip(style2)) \in {<<"b", "o", "o", "k">>, <<"n", "o", "r", "m", "a", "l">>}
                      THEN stripped
                      ELSE style2
                 ELSE style2
       ELSE style2

\* the keyword arguments left at their defaults
DefaultOptions ==
    [regular_synonyms_mode |-> DEFAULT_REGULAR_SYNONYMS_MODE,
     drop_book             |-> "None",
     drop_normal           |-> "None",
     regular_equivalent    |-> None]

\* <<style, slope>>, each a str or None
normalize_style_and_slope_for_id1_id4(style_arg, slope_arg, opts) ==
    LET regular_equivalent == validate_regular_equivalent(opts.regular_equivalent)
        style0 == normalize_empty(style_arg)
        slope0 == normalize_empty(slope_arg)
        style1 == _strip_token(RE_REGULAR, style0)[1]
        style2 == IF /\ regular_equivalent # None
                     /\ Lower(regular_equivalent) # <<"r", "e", "g", "u", "l", "a", "r">>
                  THEN _strip_token(<<Lower(regular_equivalent)>>, style1)[1]
                  ELSE style1
        extracted == _extract_slope_from_style(style2)
        slope_norm == IF is_empty(slope0) THEN extracted[2] ELSE slope0
        style3 == _apply_regular_synonym_mode(extracted[1], opts.regular_synonyms_mode,
                                              opts.drop_book, opts.drop_normal)
    IN IF is_empty(style0) THEN <<None, slope0>>
       ELSE <<normalize_empty(JoinSplit(style3)), slope_norm>>

(***************************************************************************)
(* core_variable_font_detection.  A font is the record of what the         *)
(* functions read from a TTFont: the tags of its tables, the axes and the  *)
(* number of instances of fvar, and the attributes of the STAT table.      *)
(* DesignAxisRecord is "missing" (no attribute), "NoAxis" (no Axis         *)
(* attribute) or "Axis" with the list of its AxisTags; AxisValueArray is   *)
(* "missing", "None", "NoAxisValue" or "AxisValue" with the list of its    *)
(* AxisIndex values (0-based).  An issue is its message.                   *)
(***************************************************************************)
\* VariableFontMode
STRICT == "strict"

LENIENT == "lenient"

PEDANTIC == "pedantic"

VariableFontMode == {STRICT, LENIENT, PEDANTIC}

\* table_tag in font
_check_table_presence(fnt, table_tag) == table_tag \in fnt.tables

\* (axis_count, axis_tags, instance_count)
_extract_axis_info(fnt) ==
    IF "fvar" \in fnt.tables
    THEN <<Len(fnt.axes), fnt.axes, fnt.instances>>
    ELSE <<0, <<>>, 0>>

\* the three checks of _validate_stat_structure, in order
DesignAxisRecordIssues(stat) ==
    IF stat.DesignAxisRecord.shape = "missing"
    THEN <<"STAT missing DesignAxisRecord">>
    ELSE IF stat.DesignAxisRecord.shape = "NoAxis"
    THEN <<"STAT DesignAxisRecord has no Axis records">>
    ELSE IF stat.DesignAxisRecord.Axis = <<>>
    THEN <<"STAT DesignAxisRecord.Axis is empty">>
    ELSE <<>>

AxisValueArrayIssues(stat) ==
    IF stat.AxisValueArray.shape = "missing"
    THEN <<"STAT missing AxisValueArray">>
    ELSE IF stat.AxisValueArray.shape \in {"None", "NoAxisValue"}
    THEN <<"STAT AxisValueArray has no AxisValue records">>
    ELSE IF stat.AxisValueArray.AxisValue = <<>>
    THEN <<"STAT AxisValueArray.AxisValue is empty">>
    ELSE <<>>

ElidedFallbackNameIDIssues(stat) ==
    IF stat.ElidedFallbackNameID THEN <<>>
    ELSE <<"STAT missing ElidedFallbackNameID (recommended)">>

_validate_stat_structure(fnt) ==
    IF "STAT" \notin fnt.tables THEN <<"Missing STAT table">>
    ELSE DesignAxisRecordIssues(fnt.STAT)
             \o AxisValueArrayIssues(fnt.STAT)
             \o ElidedFallbackNameIDIssues(fnt.STAT)

\* the keys of fvar_defaults in insertion order: each tag once
RECURSIVE DictKeys(_)
DictKeys(tags) ==
    IF tags = <<>> THEN <<>>
    ELSE LET before == DictKeys(SubSeq(tags, 1, Len(tags) - 1))
             tag == tags[Len(tags)]
         IN IF \E k \in 1..Len(before) : before[k] = tag THEN before
            ELSE Append(before, tag)

\* axis_tags_with_values: the AxisTag of stat.DesignAxisRecord.Axis[axis_index]
\* for every AxisValue; an IndexError or AttributeError adds nothing
axis_tags_with_values(stat) ==
    IF stat.DesignAxisRecord.shape # "Axis" THEN {}
    ELSE {stat.DesignAxisRecord.Axis[stat.AxisValueArray.AxisValue[k] + 1] :
              k \in {j \in 1..Len(stat.AxisValueArray.AxisValue) :
                        stat.AxisValueArray.AxisValue[j] + 1
                            \in 1..Len(stat.DesignAxisRecord.Axis)}}

\* the message of an axis that no AxisValue refers to
AxisIssue(tag) ==
    IF tag = "wght" THEN "Axis 'wght' has no AxisValue records in STAT"
    ELSE IF tag = "wdth" THEN "Axis 'wdth' has no AxisValue records in STAT"
    ELSE "Axis has no AxisValue records in STAT"

\* the issues of the rows of tags that are outside the set with_values
AxisIssues(tags, with_values) ==
    LET without == SelectSeq(tags, LAMBDA tag : tag \notin with_values)
    IN [k \in 1..Len(without) |-> AxisIssue(without[k])]

_validate_axis_defaults(fnt) ==
    IF "fvar" \notin fnt.tables \/ "STAT" \notin fnt.tables THEN <<>>
    ELSE IF fnt.STAT.AxisValueArray.shape \in {"missing", "None"}
    THEN <<"STAT has no AxisValue records to match fvar defaults">>
    ELSE IF fnt.STAT.AxisValueArray.shape = "NoAxisValue"
    THEN <<"Error validating axis defaults">>
    ELSE AxisIssues(DictKeys(fnt.axes), axis_tags_with_values(fnt.STAT))

\* is_variable of analyze_variable_font
IsVariableFor(mode_arg, has_fvar, has_stat) ==
    IF mode_arg = STRICT THEN has_fvar /\ has_stat
    ELSE IF mode_arg = LENIENT THEN has_fvar
    ELSE IF mode_arg = PEDANTIC THEN has_fvar /\ has_stat
    ELSE FALSE

\* the issues of analyze_variable_font
AnalysisIssues(fnt, mode_arg, has_fvar, has_stat, axis_count, is_var) ==
    (IF has_fvar /\ ~has_stat
     THEN <<"Missing STAT table (recommended by OpenType spec)">> ELSE <<>>)
        \o (IF has_fvar /\ axis_count = 0
            THEN <<"fvar table exists but has no axes">> ELSE <<>>)
        \o (IF mode_arg = PEDANTIC /\ is_var
            THEN _validate_stat_structure(fnt) \o _validate_axis_defaults(fnt)
            ELSE <<>>)

\* the VariableFontAnalysis
analyze_variable_font(fnt, mode_arg) ==
    LET has_fvar == _check_table_presence(fnt, "fvar")
        has_stat == _check_table_presence(fnt, "STAT")
        info     == _extract_axis_info(fnt)
        is_var   == IsVariableFor(mode_arg, has_fvar, has_stat)
    IN [is_variable    |-> is_var,
        has_fvar       |-> has_fvar,
        has_stat       |-> has_stat,
        has_avar       |-> _check_table_presence(fnt, "avar"),
        has_mvar       |-> _check_table_presence(fnt, "MVAR"),
        axis_count     |-> info[1],
        axes           |-> info[2],
        instance_count |-> info[3],
        issues         |-> AnalysisIssues(fnt, mode_arg, has_fvar, has_stat, info[1], is_var)]

\* the issues are logged, the return value is analysis.is_variable
is_variable_font(fnt, mode_arg) == analyze_variable_font(fnt, mode_arg).is_variable

\* a STAT table nothing is read from
NoSTAT ==
    [DesignAxisRecord     |-> [shape |-> "missing", Axis |-> <<>>],
     AxisValueArray       |-> [shape |-> "missing", AxisValue |-> <<>>],
     ElidedFallbackNameID |-> FALSE]

\* a font without tables
NoFont == [tables |-> {}, axes |-> <<>>, instances |-> 0, STAT |-> NoSTAT]

\* the analysis before any call
NoAnalysis ==
    [is_variable |-> FALSE, has_fvar |-> FALSE, has_stat |-> FALSE,
     has_avar |-> FALSE, has_mvar |-> FALSE, axis_count |-> 0, axes |-> <<>>,
     instance_count |-> 0, issues |-> <<>>]

\* is_variable_font was not called
NoVariableFontCall ==
    /\ analysis = NoAnalysis
    /\ is_variable = FALSE

variable_font_vars == <<font, font_mode, analysis, is_variable>>

\* the detector is given no font and was not called
VariableFontIdle ==
    /\ font = NoFont
    /\ font_mode = STRICT
    /\ NoVariableFontCall

(***************************************************************************)
(* core_file_collector.  A path is a str; the file system is the set of    *)
(* the absolute paths of its regular files, under the directories of       *)
(* Directories, and relative paths are resolved against the working        *)
(* directory cwd.                                                          *)
(***************************************************************************)
SUPPORTED_EXTENSIONS ==
    {<<".", "t", "t", "f">>, <<".", "o", "t", "f">>, <<".", "w", "o", "f", "f">>,
     <<".", "w", "o", "f", "f", "2">>, <<".", "t", "t", "x">>}

\* the working directory of the process
cwd == <<"/", "w">>

\* the directories of the file system
Directories == {<<"/", "w">>, <<"/", "w", "/", "d">>, <<"/", "w", "/", "d", "/", "s">>}

\* the characters of the paths in the order of their code points
CodePoints ==
    <<".", "/", "0", "1", "2", "3", "4", "5", "6", "7", "8", "9">>
        \o AsciiUpperSeq \o AsciiLowerSeq

CodeOf(c) == CHOOSE k \in 1..Len(CodePoints) : CodePoints[k] = c

\* a < b for two str
StrLess(a, b) ==
    \E k \in 1..(Len(b)) :
        /\ \A j \in 1..(k - 1) : j <= Len(a) /\ a[j] = b[j]
        /\ \/ k = Len(a) + 1
           \/ k <= Len(a) /\ CodeOf(a[k]) < CodeOf(b[k])

\* sorted(S) for a set of str
RECURSIVE Sorted(_)
Sorted(S) ==
    IF S = {} THEN <<>>
    ELSE LET least == CHOOSE a \in S : \A b \in S \ {a} : StrLess(a, b)
         IN <<least>> \o Sorted(S \ {least})

\* "/".join(parts)
RECURSIVE JoinPath(_)
JoinPath(parts) ==
    IF parts = <<>> THEN <<>>
    ELSE IF Len(parts) = 1 THEN parts[1]
    ELSE parts[1] \o <<"/">> \o JoinPath(Tail(parts))

\* Path(p).parts without the root: the components that are neither empty nor "."
PathParts(p) == SelectSeq(SplitOn(p, "/"), LAMBDA part : part # <<>> /\ part # <<".">>)

IsAbsolute(p) == p # <<>> /\ p[1] = "/"

\* str(Path(p))
PathStr(p) ==
    IF IsAbsolute(p) THEN <<"/">> \o JoinPath(PathParts(p))
    ELSE IF PathParts(p) = <<>> THEN <<".">>
    ELSE JoinPath(PathParts(p))

\* str(Path(p) / name)
PathJoin(p, name) == PathStr(p \o <<"/">> \o name)

\* Path(p).name
PathName(p) == IF PathParts(p) = <<>> THEN <<>> ELSE PathParts(p)[Len(PathParts(p))]

\* the suffix of a file name: from its last dot, unless the dot is the
\* first or the last character
NameSuffix(name) ==
    IF LastIndexOf(name, ".") > 1 /\ LastIndexOf(name, ".") < Len(name)
    THEN Slice(name, LastIndexOf(name, "."), Len(name))
    ELSE <<>>

\* Path(p).suffix
PathSuffix(p) == NameSuffix(PathName(p))

\* the path the operating system looks up
AbsoluteOf(p) == IF IsAbsolute(p) THEN PathStr(p) ELSE PathStr(cwd \o <<"/">> \o p)

\* Path.is_file and Path.is_dir in file system fs
is_file(fs, p) == AbsoluteOf(p) \in fs

is_dir(fs, p) == AbsoluteOf(p) \in Directories

\* [Path(p).expanduser() for p in paths]; no path begins with "~"
_normalize_paths(path_list) == [k \in 1..Len(path_list) |-> PathStr(path_list[k])]

\* str.upper
Upper(s) == [k \in 1..Len(s) |-> UpperOf(s[k])]

_matches_extension(p, allowed) ==
    /\ Lower(PathSuffix(p)) # <<>>
    /\ Lower(PathSuffix(p)) \in {Lower(e) : e \in allowed}

\* the patterns as <<base_path, extension>>: base_path / "*<extension>",
\* with "**/" in front of the star when recursive
_glob_patterns_for_extension(base_path, ext, recursive, include_uppercase) ==
    <<<<base_path, Lower(ext)>>>>
        \o (IF include_uppercase THEN <<<<base_path, Upper(Lower(ext))>>>> ELSE <<>>)

\* the paths below directory dir, relative to it, of the entries glob visits:
\* the files and directories of dir, and with recursive those of its
\* subdirectories; no name begins with a dot
GlobEntries(fs, dir, recursive) ==
    {Slice(e, Len(dir) + 2, Len(e)) :
        e \in {f \in fs \cup Directories :
                  /\ Len(f) > Len(dir) + 1
                  /\ Slice(f, 1, Len(dir) + 1) = dir \o <<"/">>
                  /\ recursive \/ ~Contains(Slice(f, Len(dir) + 2, Len(f)), "/")}}

\* glob.glob(str(base_path / "*<ext>"), recursive=recursive): fnmatch of the
\* name against "*<ext>" is case-sensitive
Glob(fs, pattern, recursive) ==
    IF ~is_dir(fs, pattern[1]) THEN {}
    ELSE {PathJoin(pattern[1], rel) :
              rel \in {r \in GlobEntries(fs, AbsoluteOf(pattern[1]), recursive) :
                          EndsWith(PathName(r), pattern[2])}}

_collect_from_directory(fs, path_obj, allowed, recursive, include_uppercase) ==
    UNION {Glob(fs, _glob_patterns_for_extension(path_obj, ext, recursive,
                                                 include_uppercase)[k], recursive) :
               ext \in allowed, k \in 1..(IF include_uppercase THEN 2 ELSE 1)}

\* str(Path(path)) when the extension is allowed, None otherwise
_safe_absolute_path(p, allowed) ==
    IF _matches_extension(PathStr(p), allowed) THEN PathStr(p) ELSE None

\* what one path of the loop adds to results
CollectedFrom(fs, path_obj, allowed, recursive, include_uppercase) ==
    IF is_file(fs, path_obj)
    THEN IF _matches_extension(path_obj, allowed) THEN {path_obj} ELSE {}
    ELSE IF is_dir(fs, path_obj)
    THEN _collect_from_directory(fs, path_obj, allowed, recursive, include_uppercase)
    ELSE {}

\* the filtered list as a set, given results
Filtered(results, allowed) ==
    {_safe_absolute_path(p, allowed) : p \in results} \ {None}

\* allowed_extensions or SUPPORTED_EXTENSIONS
AllowedOr(allowed_extensions) ==
    IF allowed_extensions = {} THEN SUPPORTED_EXTENSIONS ELSE allowed_extensions

collect_font_files(fs, path_list, recursive, allowed_extensions, include_uppercase) ==
    Sorted(Filtered(
        UNION {CollectedFrom(fs, _normalize_paths(path_list)[k],
                             AllowedOr(allowed_extensions), recursive, include_uppercase) :
                   k \in 1..Len(path_list)},
        AllowedOr(allowed_extensions)))

\* the keyword defaults of collect_font_files on no path
NoCollectorArguments ==
    [paths |-> <<>>, recursive |-> FALSE, allowed_extensions |-> {},
     include_uppercase |-> TRUE]

\* collect_font_files was not called
NoCollectorCall == collected = <<>>

collector_vars == <<files, collector_arguments, collected>>

\* the collector is given no path on an empty file system and was not called
CollectorIdle ==
    /\ files = {}
    /\ collector_arguments = NoCollectorArguments
    /\ NoCollectorCall

(***************************************************************************)
(* core_error_handling.  An ErrorInfo is a record of the fields the        *)
(* tracker reads; an enum member is its value; a dict is a function on the *)
(* set of its keys.                                                        *)
(***************************************************************************)
ErrorContext ==
    {"file_io", "loading", "saving", "parsing", "validation", "name_table",
     "stat_table", "fvar_table", "cff_table", "os2_table", "construction", "policy",
     "unknown"}

ErrorSeverity == {"debug", "info", "warning", "error", "critical"}

\* ErrorContext.is_recoverable_by_default
is_recoverable_by_default(context) == context \notin {"file_io", "unknown"}

\* ErrorContext.severity
severity(context) ==
    IF context \in {"file_io", "loading", "saving"} THEN "critical"
    ELSE IF context \in {"validation", "policy"} THEN "warning"
    ELSE "error"

\* ErrorInfo(context, message, filepath, recoverable=, severity=) with
\* __post_init__: a recoverable or severity of None (here "None") is replaced
\* by the default of the context
ErrorInfo(context, message, filepath, recoverable_arg, severity_arg) ==
    [context |-> context,
     message |-> message,
     filepath |-> filepath,
     recoverable |-> IF recoverable_arg = "None" THEN is_recoverable_by_default(context)
                     ELSE recoverable_arg = "True",
     severity |-> IF severity_arg = "None" THEN severity(context) ELSE severity_arg]

\* {}
EmptyDict == [key \in {} |-> <<>>]

\* ErrorTracker.__init__
NewErrorTracker ==
    [errors |-> <<>>, _errors_by_context |-> EmptyDict, _errors_by_file |-> EmptyDict]

\* `if key not in index: index[key] = []` and `index[key].append(error)`
Indexed(index, key, error) ==
    [k \in DOMAIN index \cup {key} |->
        IF k = key
        THEN (IF key \in DOMAIN index THEN index[key] ELSE <<>>) \o <<error>>
        ELSE index[k]]

\* `if error.filepath`
Truthy(filepath) == filepath # None /\ filepath # <<>>

\* mutant: the file index is not cleared
clear_KeepFileIndex(self) ==
    [errors |-> <<>>, _errors_by_context |-> EmptyDict,
     _errors_by_file |-> self._errors_by_file]

\* ErrorTracker.clear
clear(self) ==
    [errors |-> <<>>, _errors_by_context |-> EmptyDict, _errors_by_file |-> EmptyDict]

\* ErrorTracker.add_error, but the logging
add_error(self, error) ==
    [errors |-> Append(self.errors, error),
     _errors_by_context |-> Indexed(self._errors_by_context, error.context, error),
     _errors_by_file |->
         IF Truthy(error.filepath)
         THEN Indexed(self._errors_by_file, error.filepath, error)
         ELSE self._errors_by_file]

\* sum(1 for e in errors if <test>), with the errors that pass as a sequence
CountOf(passing) == Len(passing)

\* ErrorTracker.get_summary
get_summary(self) ==
    [total_errors |-> Len(self.errors),
     recoverable_errors |-> CountOf(SelectSeq(self.errors, LAMBDA e : e.recoverable)),
     non_recoverable_errors |-> CountOf(SelectSeq(self.errors, LAMBDA e : ~e.recoverable)),
     by_context |->
         [ctx \in DOMAIN self._errors_by_context |-> Len(self._errors_by_context[ctx])],
     by_severity |->
         [sev \in ErrorSeverity |->
             CountOf(SelectSeq(self.errors, LAMBDA e : e.severity = sev))],
     files_with_errors |-> Cardinality(DOMAIN self._errors_by_file)]

\* ErrorTracker.get_errors_for_file: self._errors_by_file.get(filepath, [])
get_errors_for_file(self, filepath) ==
    IF filepath \in DOMAIN self._errors_by_file THEN self._errors_by_file[filepath]
    ELSE <<>>

\* ErrorTracker.get_errors_by_context
get_errors_by_context(self, context) ==
    IF context \in DOMAIN self._errors_by_context THEN self._errors_by_context[context]
    ELSE <<>>

tracker_vars == <<tracker>>

\* the tracker is new
TrackerIdle == tracker = NewErrorTracker

(***************************************************************************)
(* core_ttx_table_io.  The name table is the sequence of the children of   *)
(* the <name> element; a child is a record of its tag, its nameID          *)
(* attribute (a str, or None when the attribute is absent) and the text it *)
(* wraps.  The whitespace around the text and the tails are left out.      *)
(***************************************************************************)
DecimalDigits == <<"0", "1", "2", "3", "4", "5", "6", "7", "8", "9">>

\* str(n) for n >= 0
RECURSIVE Str(_)
Str(n) ==
    IF n < 10 THEN <<DecimalDigits[n + 1]>>
    ELSE Str(n \div 10) \o <<DecimalDigits[(n % 10) + 1]>>

\* int(s) returns: s is a str of decimal digits (no sign, blank or underscore
\* is in the alphabet of the attributes)
IsInt(s) == s # None /\ s # <<>> /\ \A k \in 1..Len(s) : s[k] \in Digits

\* int(s) for such s
RECURSIVE IntOf(_)
IntOf(s) ==
    IF s = <<>> THEN 0
    ELSE 10 * IntOf(SubSeq(s, 1, Len(s) - 1))
            + (CHOOSE d \in 0..9 : DecimalDigits[d + 1] = s[Len(s)])

\* name_table.findall("namerecord"), and [c for c in name_table if c.tag == "namerecord"]
NameRecords(name_table) == SelectSeq(name_table, LAMBDA child : child.tag = "namerecord")

_collect_used_name_ids_ttx(name_table) ==
    {IntOf(NameRecords(name_table)[k].nameID) :
        k \in {j \in 1..Len(NameRecords(name_table)) : IsInt(NameRecords(name_table)[j].nameID)}}

\* `while nid in used: nid += 1`
RECURSIVE FirstUnused(_, _)
FirstUnused(used, nid) == IF nid \in used THEN FirstUnused(used, nid + 1) ELSE nid

\* mutant: the loop is left out
allocate_private_name_id_ttx_NoLoop(name_table, start) == start

allocate_private_name_id_ttx(name_table, start) ==
    FirstUnused(_collect_used_name_ids_ttx(name_table), start)

\* the element of _create_namerecord_element
_create_namerecord_element(name_table, name_id, new_value) ==
    [tag |-> "namerecord", nameID |-> Str(name_id), text |-> new_value]

\* int(child.get("nameID", "999999")), 999999 when int raises
ChildId(child) ==
    IF child.nameID = None THEN 999999
    ELSE IF IsInt(child.nameID) THEN IntOf(child.nameID)
    ELSE 999999

\* the index (from 0) where _insert_in_order inserts: that of the first
\* namerecord whose id is greater, len(name_table) when there is none
InsertAt(name_table, target_id) ==
    IF \E k \in 1..Len(name_table) :
           name_table[k].tag = "namerecord" /\ ChildId(name_table[k]) > target_id
    THEN Min({k \in 1..Len(name_table) :
                 name_table[k].tag = "namerecord" /\ ChildId(name_table[k]) > target_id}) - 1
    ELSE Len(name_table)

\* name_table.insert(insert_at, new_record)
Inserted(name_table, insert_at, new_record) ==
    SubSeq(name_table, 1, insert_at) \o <<new_record>>
        \o SubSeq(name_table, insert_at + 1, Len(name_table))

\* the name table after _insert_in_order
_insert_in_order(name_table, new_record) ==
    Inserted(name_table,
             InsertAt(name_table,
                      IF IsInt(new_record.nameID) THEN IntOf(new_record.nameID) ELSE 999999),
             new_record)

\* create_private_namerecord_ttx: <<new_id, the name table after the call>>
create_private_namerecord_ttx(name_table, new_value) ==
    <<allocate_private_name_id_ttx(name_table, 256),
      _insert_in_order(name_table,
                       _create_namerecord_element(
                           name_table, allocate_private_name_id_ttx(name_table, 256),
                           new_value))>>

\* no allocate_private_name_id_ttx call was made
NoAllocation == [start |-> 0, nid |-> 0]

name_table_vars == <<ttx_name_table, original_table, returned_ids, allocated>>

\* the name table is empty and no function was called on it
NameTableIdle ==
    /\ ttx_name_table = <<>>
    /\ original_table = <<>>
    /\ returned_ids = <<>>
    /\ allocated = NoAllocation

(***************************************************************************)
(* Each source module is a program of its own: the calls of one module     *)
(* leave the variables of the other modules as they are.                   *)
(***************************************************************************)
\* the variables of the modules other than the parser and the name policies
other_modules == <<variable_font_vars, collector_vars, tracker_vars, name_table_vars>>

\* these modules are given empty arguments and were not called
OtherModulesIdle ==
    /\ VariableFontIdle
    /\ CollectorIdle
    /\ TrackerIdle
    /\ NameTableIdle

(***************************************************************************)
(* The calls.  Each entry point is called once on the chosen arguments.    *)
(***************************************************************************)
\* every str over alphabet of at most n characters
Strings(alphabet, n) == UNION {[1..k -> alphabet] : k \in 0..n}

NoParsedName ==
    [original |-> <<>>, base |-> <<>>, family_raw |-> <<>>,
     subfamily_raw |-> <<>>, family |-> <<>>, subfamily |-> <<>>]

\* nothing was called yet
NoResults ==
    /\ pc = "start"
    /\ tokens = <<>>
    /\ formatted_tokens = <<>>
    /\ words = <<>>
    /\ pair = <<<<>>, <<>>>>
    /\ parsed = NoParsedName
    /\ spaced_tokens = <<>>
    /\ normalized = <<None, None>>
    /\ raised = ""

\* the style normalizer's arguments: no style, no slope, default options
NoStyle ==
    /\ subfamily_style = None
    /\ slope = None
    /\ options = DefaultOptions

\* the name is one of inputs; the other arguments are empty
InitOver(inputs) ==
    /\ input_name \in inputs
    /\ strip_extension = TRUE
    /\ input_tokens = <<>>
    /\ NoStyle
    /\ NoResults
    /\ OtherModulesIdle

\* the arguments of the calls, which no call changes
arguments == <<input_name, input_tokens, subfamily_style, slope, options>>

\* tokenize_pascal_case subscripts nothing and unpacks nothing
CallTokenizePascalCase ==
    /\ pc = "start"
    /\ pc' = "tokenize_pascal_case"
    /\ tokens' = tokenize_pascal_case(input_name)
    /\ raised' = ""
    /\ UNCHANGED <<other_modules, arguments, strip_extension, formatted_tokens, words, pair, parsed,
                   spaced_tokens, normalized>>

CallFormatPascalWords ==
    /\ pc = "start"
    /\ pc' = "format_pascal_words"
    /\ IF format_pascal_words_IndexError(input_name)
       THEN /\ raised' = "IndexError"
            /\ UNCHANGED <<formatted_tokens, words>>
       ELSE /\ raised' = ""
            /\ formatted_tokens' = FormattedTokens(Segments(input_name))
            /\ words' = format_pascal_words(input_name)
    /\ UNCHANGED <<other_modules, arguments, strip_extension, tokens, pair, parsed,
                   spaced_tokens, normalized>>

CallSplitFamilySubfamily ==
    /\ pc = "start"
    /\ \E strip \in BOOLEAN :
          /\ strip_extension' = strip
          /\ raised' = split_family_subfamily_Raised(input_name, strip)
          /\ IF raised' = ""
             THEN pair' = split_family_subfamily(input_name, strip)
             ELSE UNCHANGED pair
    /\ pc' = "split_family_subfamily"
    /\ UNCHANGED <<other_modules, arguments, tokens, formatted_tokens, words, parsed,
                   spaced_tokens, normalized>>

CallParseFilename ==
    /\ pc = "start"
    /\ \E strip \in BOOLEAN :
          /\ strip_extension' = strip
          /\ raised' = parse_filename_Raised(input_name, strip)
          /\ IF raised' = ""
             THEN parsed' = parse_filename(input_name, strip)
             ELSE UNCHANGED parsed
    /\ pc' = "parse_filename"
    /\ UNCHANGED <<other_modules, arguments, tokens, formatted_tokens, words, pair,
                   spaced_tokens, normalized>>

CallApplySpacingRules ==
    /\ pc = "start"
    /\ pc' = "apply_spacing_rules"
    /\ IF apply_spacing_rules_IndexError(input_tokens)
       THEN /\ raised' = "IndexError"
            /\ UNCHANGED spaced_tokens
       ELSE /\ raised' = ""
            /\ spaced_tokens' = apply_spacing_rules(input_tokens)
    /\ UNCHANGED <<other_modules, arguments, strip_extension, tokens, formatted_tokens, words, pair,
                   parsed, normalized>>

\* validate_regular_equivalent is called with strict=False and does not raise
CallNormalizeStyleAndSlope ==
    /\ pc = "start"
    /\ pc' = "normalize_style_and_slope_for_id1_id4"
    /\ normalized' = normalize_style_and_slope_for_id1_id4(subfamily_style, slope, options)
    /\ raised' = ""
    /\ UNCHANGED <<other_modules, arguments, strip_extension, tokens, formatted_tokens, words, pair,
                   parsed, spaced_tokens>>

Next ==
    \/ CallTokenizePascalCase
    \/ CallFormatPascalWords
    \/ CallSplitFamilySubfamily
    \/ CallParseFilename
    \/ CallApplySpacingRules
    \/ CallNormalizeStyleAndSlope

\* words, digits, underscores, an unhandled character and punctuation atoms
Alphabet == {"A", "B", "a", "b", "1", "_", ".", "!", "*"}

Init == InitOver(Strings(Alphabet, MaxLen))

Spec == Init /\ [][Next]_vars

\* file names: path separator, extension dot, hyphen, forbidden characters
NameAlphabet == {"A", "a", "1", "-", ".", "_", "/", ":", "\\"}

InitNames == InitOver(Strings(NameAlphabet, MaxLen))

SpecNames == InitNames /\ [][Next]_vars

\* cased letters outside ASCII, which str.upper / str.lower change
UnicodeAlphabet == {"A", "a", "1", "_", ".", "e'", "E'"}

InitUnicode == InitOver(Strings(UnicodeAlphabet, MaxLen))

SpecUnicode == InitUnicode /\ [][Next]_vars

\* file names assembled from pieces, the ".CFF2" marker being one piece
MaxPieces == 5

NamePieces == {<<"a">>, <<"B">>, <<".">>, <<"-">>, CFF2Suffix}

RECURSIVE PieceNames(_)
PieceNames(n) ==
    IF n = 0 THEN {<<>>}
    ELSE PieceNames(n - 1) \cup {name \o piece : name \in PieceNames(n - 1), piece \in NamePieces}

InitCFF2 == InitOver(PieceNames(MaxPieces))

SpecCFF2 == InitCFF2 /\ [][Next]_vars

\* money and percent signs among words, numbers and punctuation
MoneyAlphabet == {"A", "a", "1", ".", "$", "%", "!", "*"}

InitMoney == InitOver(Strings(MoneyAlphabet, MaxLen))

SpecMoney == InitMoney /\ [][Next]_vars

\* token lists handed to apply_spacing_rules: a word, numbers, an empty
\* token, an unmatched character and tokens of every spacing class
MaxTokens == 3

TokenVocabulary ==
    {<<>>, <<"A", "b">>, <<"1">>, <<"1", ".", "5">>, <<".">>, <<"&">>,
     <<"*">>, <<"'">>, <<"!">>, <<")">>, <<"(">>, <<"$">>, <<"%">>}

TokenLists(n) == UNION {[1..k -> TokenVocabulary] : k \in 0..n}

InitTokens ==
    /\ input_name = <<>>
    /\ strip_extension = TRUE
    /\ input_tokens \in TokenLists(MaxTokens)
    /\ NoStyle
    /\ NoResults
    /\ OtherModulesIdle

SpecTokens == InitTokens /\ [][Next]_vars

\* styles of at most MaxStyleWords words, a space between two words
MaxStyleWords == 3

StyleWords == {<<"I", "t", "a", "l", "i", "c">>, <<"O", "b", "l", "i", "q", "u", "e">>, <<"R", "e", "g", "u", "l", "a", "r">>, <<"b", "o", "o", "k">>}

RECURSIVE Styles(_)
Styles(n) ==
    IF n = 0 THEN {<<>>}
    ELSE Styles(n - 1) \cup StyleWords
             \cup {style \o <<" ">> \o word : style \in Styles(n - 1) \ {<<>>},
                                              word \in StyleWords}

StyleOptions ==
    [regular_synonyms_mode : {DEFAULT_REGULAR_SYNONYMS_MODE, <<"l", "o", "o", "s", "e">>, <<"c", "o", "n", "s", "e", "r", "v", "a", "t", "i", "v", "e">>},
     drop_book             : {"None", "True", "False"},
     drop_normal           : {"None", "True"},
     regular_equivalent    : {None, <<"B", "o", "o", "k">>}]

InitStyles ==
    /\ input_name = <<>>
    /\ strip_extension = TRUE
    /\ input_tokens = <<>>
    /\ subfamily_style \in Styles(MaxStyleWords) \cup {None}
    /\ slope \in {None, <<"I", "t", "a", "l", "i", "c">>}
    /\ options \in StyleOptions
    /\ NoResults
    /\ OtherModulesIdle

SpecStyles == InitStyles /\ [][Next]_vars

(***************************************************************************)
(* The calls of core_variable_font_detection.                              *)
(***************************************************************************)
\* the variables of the parser and of the name policies but pc and raised
parser_vars ==
    <<input_name, strip_extension, tokens, formatted_tokens, words, pair, parsed,
      input_tokens, spaced_tokens, subfamily_style, slope, options, normalized>>

\* the parser and the name policies are given empty arguments and were not called
ParserIdle ==
    /\ input_name = <<>>
    /\ strip_extension = TRUE
    /\ input_tokens = <<>>
    /\ NoStyle
    /\ NoResults

\* is_variable_font analyzes the font and returns analysis.is_variable; the
\* helpers catch every exception of the table access
CallIsVariableFont ==
    /\ pc = "start"
    /\ pc' = "is_variable_font"
    /\ analysis' = analyze_variable_font(font, font_mode)
    /\ is_variable' = is_variable_font(font, font_mode)
    /\ raised' = ""
    /\ UNCHANGED <<parser_vars, font, font_mode, collector_vars, tracker_vars,
                   name_table_vars>>

NextVariableFont == CallIsVariableFont

\* fonts with at most MaxAxes axes in fvar and in STAT
MaxAxes == 1

AxisTags == {"wght", "wdth"}

TagLists(n) == UNION {[1..k -> AxisTags] : k \in 0..n}

InstanceCounts == 0..1

STATs ==
    [DesignAxisRecord :
         {[shape |-> "missing", Axis |-> <<>>], [shape |-> "NoAxis", Axis |-> <<>>]}
             \cup {[shape |-> "Axis", Axis |-> tags] : tags \in TagLists(MaxAxes)},
     AxisValueArray :
         {[shape |-> "missing", AxisValue |-> <<>>], [shape |-> "None", AxisValue |-> <<>>],
          [shape |-> "NoAxisValue", AxisValue |-> <<>>]}
             \cup {[shape |-> "AxisValue", AxisValue |-> indexes] :
                       indexes \in UNION {[1..k -> 0..MaxAxes] : k \in 0..MaxAxes}},
     ElidedFallbackNameID : BOOLEAN]

Fonts ==
    {fnt \in [tables : SUBSET {"fvar", "STAT", "avar", "MVAR"},
              axes : TagLists(MaxAxes),
              instances : InstanceCounts,
              STAT : STATs \cup {NoSTAT}] :
        /\ "fvar" \notin fnt.tables => fnt.axes = <<>> /\ fnt.instances = 0
        /\ "STAT" \notin fnt.tables => fnt.STAT = NoSTAT}

InitVariableFont ==
    /\ ParserIdle
    /\ CollectorIdle
    /\ TrackerIdle
    /\ NameTableIdle
    /\ font \in Fonts
    /\ font_mode \in VariableFontMode
    /\ NoVariableFontCall

SpecVariableFont == InitVariableFont /\ [][NextVariableFont]_vars

(***************************************************************************)
(* The calls of core_file_collector.                                       *)
(***************************************************************************)
\* collect_font_files returns the sorted list; _safe_absolute_path catches
\* every exception
CallCollectFontFiles ==
    /\ pc = "start"
    /\ pc' = "collect_font_files"
    /\ collected' = collect_font_files(files, collector_arguments.paths,
                                       collector_arguments.recursive,
                                       collector_arguments.allowed_extensions,
                                       collector_arguments.include_uppercase)
    /\ raised' = ""
    /\ UNCHANGED <<parser_vars, variable_font_vars, files, collector_arguments, tracker_vars,
                   name_table_vars>>

NextCollector == CallCollectFontFiles

\* at most MaxPaths paths are given
MaxPaths == 2

\* the regular files the file system may hold
FileUniverse ==
    {<<"/", "w", "/", "a", ".", "t", "t", "f">>,
     <<"/", "w", "/", "d", "/", "b", ".", "T", "T", "F">>,
     <<"/", "w", "/", "d", "/", "c", ".", "T", "t", "f">>,
     <<"/", "w", "/", "d", "/", "e", ".", "t", "x", "t">>,
     <<"/", "w", "/", "d", "/", "s", "/", "s", ".", "o", "t", "f">>}

\* the paths a caller may give: files and directories, relative and absolute
PathUniverse ==
    {<<"a", ".", "t", "t", "f">>,
     <<"/", "w", "/", "a", ".", "t", "t", "f">>,
     <<"d">>,
     <<"/", "w", "/", "d">>,
     <<"d", "/", "b", ".", "T", "T", "F">>}

\* the allowed_extensions a caller may give; the empty set stands for None
AllowedExtensionSets == {{}, {<<".", "T", "T", "F">>}}

InitCollector ==
    /\ ParserIdle
    /\ VariableFontIdle
    /\ TrackerIdle
    /\ NameTableIdle
    /\ files \in SUBSET FileUniverse
    /\ collector_arguments \in
           [paths : UNION {[1..k -> PathUniverse] : k \in 0..MaxPaths},
            recursive : BOOLEAN,
            allowed_extensions : AllowedExtensionSets,
            include_uppercase : BOOLEAN]
    /\ NoCollectorCall

SpecCollector == InitCollector /\ [][NextCollector]_vars

(***************************************************************************)
(* The calls of core_error_handling: a caller builds an ErrorInfo and adds *)
(* it to the tracker, or clears the tracker, in any order.  pc is the      *)
(* method called last.                                                     *)
(***************************************************************************)
\* at most MaxErrors errors are tracked at a time
MaxErrors == 2

\* the contexts a caller uses: one for each pair of defaults
CallerContexts == {"file_io", "validation", "parsing"}

\* the filepath of an error: None, the empty str, or the path of a file
FilePaths == {None, <<>>, <<"a">>, <<"b">>}

\* the recoverable= and severity= a caller passes
RecoverableArguments == {"None", "False"}

SeverityArguments == {"None", "debug"}

CallAddError ==
    /\ pc \in {"start", "add_error", "clear"}
    /\ Len(tracker.errors) < MaxErrors
    /\ \E context \in CallerContexts, filepath \in FilePaths,
          recoverable_arg \in RecoverableArguments, severity_arg \in SeverityArguments :
           tracker' = add_error(tracker, ErrorInfo(context, <<"m">>, filepath,
                                                   recoverable_arg, severity_arg))
    /\ pc' = "add_error"
    /\ raised' = ""
    /\ UNCHANGED <<parser_vars, variable_font_vars, collector_vars, name_table_vars>>

CallClear ==
    /\ pc \in {"start", "add_error", "clear"}
    /\ tracker' = clear(tracker)
    /\ pc' = "clear"
    /\ raised' = ""
    /\ UNCHANGED <<parser_vars, variable_font_vars, collector_vars, name_table_vars>>

NextTracker == CallAddError \/ CallClear

InitTracker ==
    /\ ParserIdle
    /\ VariableFontIdle
    /\ CollectorIdle
    /\ TrackerIdle
    /\ NameTableIdle

SpecTracker == InitTracker /\ [][NextTracker]_vars

(***************************************************************************)
(* The calls of core_ttx_table_io on one name table, in any order.  pc is  *)
(* the function called last; original_table is the table as loaded and     *)
(* returned_ids lists what the create_private_namerecord_ttx calls         *)
(* returned.                                                               *)
(***************************************************************************)
\* the table as loaded has at most MaxRecords children
MaxRecords == 2

\* at most MaxCreates records are created
MaxCreates == 3

\* the nameID attributes of the loaded children: absent, ids below and in the
\* private range, and one that is no integer
NameIDAttributes ==
    {None, <<"1">>, <<"2", "5", "6">>, <<"2", "5", "7">>, <<"x">>}

\* the children of the loaded table: namerecords, and elements of another tag
Children ==
    [tag : {"namerecord"}, nameID : NameIDAttributes, text : {<<"p">>}]
        \cup [tag : {"other"}, nameID : {None, <<"2", "5", "6">>}, text : {<<"p">>}]

\* the start= of the allocate_private_name_id_ttx calls
Starts == {0, 1, 256, 257}

\* the new_value of the create_private_namerecord_ttx calls
NewValues == {<<"n">>}

CallAllocatePrivateNameId ==
    /\ pc \in {"start", "allocate_private_name_id_ttx", "create_private_namerecord_ttx"}
    /\ \E start \in Starts :
           allocated' = [start |-> start,
                         nid |-> allocate_private_name_id_ttx(ttx_name_table, start)]
    /\ pc' = "allocate_private_name_id_ttx"
    /\ raised' = ""
    /\ UNCHANGED <<parser_vars, variable_font_vars, collector_vars, tracker_vars,
                   ttx_name_table, original_table, returned_ids>>

CallCreatePrivateNamerecord ==
    /\ pc \in {"start", "allocate_private_name_id_ttx", "create_private_namerecord_ttx"}
    /\ Len(returned_ids) < MaxCreates
    /\ \E new_value \in NewValues :
           /\ ttx_name_table' = create_private_namerecord_ttx(ttx_name_table, new_value)[2]
           /\ returned_ids' =
                  Append(returned_ids, create_private_namerecord_ttx(ttx_name_table, new_value)[1])
    /\ pc' = "create_private_namerecord_ttx"
    /\ raised' = ""
    /\ UNCHANGED <<parser_vars, variable_font_vars, collector_vars, tracker_vars,
                   original_table, allocated>>

NextNameTable == CallAllocatePrivateNameId \/ CallCreatePrivateNamerecord

InitNameTable ==
    /\ ParserIdle
    /\ VariableFontIdle
    /\ CollectorIdle
    /\ TrackerIdle
    /\ ttx_name_table \in UNION {[1..k -> Children] : k \in 0..MaxRecords}
    /\ original_table = ttx_name_table
    /\ returned_ids = <<>>
    /\ allocated = NoAllocation

SpecNameTable == InitNameTable /\ [][NextNameTable]_vars

(***************************************************************************)
(* Vocabulary of the properties.  An output position is related to an      *)
(* input position by counting characters: the n-th character of the input  *)
(* that is no underscore is the n-th character of the output that is no    *)
(* space.                                                                  *)
(***************************************************************************)
\* s without the characters of set drop
Without(s, drop) == SelectSeq(s, LAMBDA c : c \notin drop)

\* the positions of out that hold no space, in order
NonSpacePositions(out) ==
    SelectSeq([j \in 1..Len(out) |-> j], LAMBDA j : out[j] # " ")

\* the number of spaces between the n-th and the (n+1)-th non-space character
GapAfter(out, n) == NonSpacePositions(out)[n + 1] - NonSpacePositions(out)[n] - 1

\* the rank of position i among the positions of s that hold no underscore
Ord(s, i) == Len(Without(Slice(s, 1, i), {"_"}))

\* the output keeps every character of the input but the underscores
SameCharacters(s, out) == Without(out, {" "}) = Without(s, {"_"})

\* the number of characters in front of token k of a token list
OffsetOf(toks, k) == Len(Join(SubSeq(toks, 1, k - 1)))

\* positions i where a lowercase letter is immediately followed by a capital
PascalBoundaries(s) ==
    {i \in 1..(Len(s) - 1) : s[i] \in AsciiLower /\ s[i + 1] \in AsciiUpper}

\* C1: format_pascal_words puts exactly one space at every position of the
\* input where an ASCII lowercase letter is immediately followed by an ASCII
\* uppercase letter: both letters are kept and one space stands between them.
C1_PascalBoundarySpaced ==
    pc = "format_pascal_words" =>
        /\ SameCharacters(input_name, words)
        /\ \A i \in PascalBoundaries(input_name) :
              LET n == Ord(input_name, i) IN
              /\ words[NonSpacePositions(words)[n]] = input_name[i]
              /\ words[NonSpacePositions(words)[n + 1]] = input_name[i + 1]
              /\ GapAfter(words, n) = 1

\* C1 witness: "AaBb" has one boundary and is returned as "Aa Bb"
C1_Witness ==
    /\ pc = "format_pascal_words"
    /\ input_name = <<"A", "a", "B", "b">>
    /\ PascalBoundaries(input_name) = {2}
    /\ words = <<"A", "a", " ", "B", "b">>

\* C4: tokenization is lossless: the tokens of tokenize_pascal_case, joined
\* in order, are the input, and no token is empty.
C4_TokenizationLossless ==
    pc = "tokenize_pascal_case" =>
        /\ Join(tokens) = input_name
        /\ \A k \in 1..Len(tokens) : tokens[k] # <<>>

\* C4 witness: "Aa.1" gives a matched token, an unmatched span and a match
C4_Witness ==
    /\ pc = "tokenize_pascal_case"
    /\ input_name = <<"A", "a", ".", "1">>
    /\ tokens = <<<<"A">>, <<"a", ".">>, <<"1">>>>

\* s.split("-", 1)[0]: what stands in front of the first hyphen
BeforeFirstHyphen(s) == SplitOn(s, "-")[1]

\* the characters _normalize_basename acts on: path separator, the two
\* forbidden characters and the extension dot
NormalizedAway == {"/", ":", "\\", "."}

\* C2 as stated, for every string s: split_family_subfamily(s)[0] ==
\* format_pascal_words(s.split('-', 1)[0]), and without a hyphen
\* split_family_subfamily(s) == (format_pascal_words(s), '').
C2_Original ==
    (pc = "split_family_subfamily" /\ strip_extension) =>
        /\ pair[1] = format_pascal_words(BeforeFirstHyphen(input_name))
        /\ ~Contains(input_name, "-") =>
              pair = <<format_pascal_words(input_name), <<>>>>

\* C2 (amended): for every string s without '/', ':', backslash and '.',
\* the family is format_pascal_words of what precedes the first hyphen, and
\* without a hyphen the result is (format_pascal_words(s), '').
C2_FamilyIsFormattedLeftPart ==
    (/\ pc = "split_family_subfamily"
     /\ strip_extension
     /\ \A i \in 1..Len(input_name) : input_name[i] \notin NormalizedAway) =>
        /\ pair[1] = format_pascal_words(BeforeFirstHyphen(input_name))
        /\ ~Contains(input_name, "-") =>
              pair = <<format_pascal_words(input_name), <<>>>>

\* C2 witness: "Aa-A", split at its hyphen, gives ("Aa", "A")
C2_Witness ==
    /\ pc = "split_family_subfamily"
    /\ strip_extension
    /\ input_name = <<"A", "a", "-", "A">>
    /\ pair = <<<<"A", "a">>, <<"A">>>>

\* C3: parse_filename splits the normalized base at the first hyphen only.
\* With a hyphen in base, family_raw has none and base is family_raw, "-",
\* subfamily_raw; without one, family_raw is base and subfamily_raw and
\* subfamily are empty.
C3_SplitAtFirstHyphen ==
    pc = "parse_filename" =>
        /\ IF Contains(parsed.base, "-")
           THEN /\ ~Contains(parsed.family_raw, "-")
                /\ parsed.base = parsed.family_raw \o <<"-">> \o parsed.subfamily_raw
           ELSE /\ parsed.family_raw = parsed.base
                /\ parsed.subfamily_raw = <<>>
                /\ parsed.subfamily = <<>>

\* C3 witness: "A-a-" has two hyphens; the second stays in subfamily_raw
C3_Witness ==
    /\ pc = "parse_filename"
    /\ input_name = <<"A", "-", "a", "-">>
    /\ parsed.family_raw = <<"A">>
    /\ parsed.subfamily_raw = <<"a", "-">>

\* the acronym runs of s: <<p, n, m>> where n >= 2 capitals start at p (no
\* capital in front), m >= 1 lowercase letters follow, and the word ends at
\* the end of s or in front of a character of stops
AcronymRuns(s, stops) ==
    {r \in (1..Len(s)) \X (2..Len(s)) \X (1..Len(s)) :
        /\ At(s, r[1] - 1) \notin AsciiUpper
        /\ RunLen(s, r[1], AsciiUpper) = r[2]
        /\ RunLen(s, r[1] + r[2], AsciiLower) = r[3]
        /\ \/ r[1] + r[2] + r[3] = Len(s) + 1
           \/ At(s, r[1] + r[2] + r[3]) \in stops}

\* what may end the word after an acronym: a capital, a digit, a handled
\* punctuation character
WordStops == AsciiUpper \cup Digits \cup WordStopChars

\* C5: acronym split.  For n >= 2 capitals followed by lowercase letters,
\* the tokenizer gives the first n-1 capitals as one token and the last
\* capital with the lowercase run as the next token; format_pascal_words
\* then has exactly one space in front of the last capital and none inside
\* the acronym or inside the word.
C5_AcronymSplit ==
    /\ pc = "tokenize_pascal_case" =>
          \A r \in AcronymRuns(input_name, WordStops) :
              \E k \in 1..(Len(tokens) - 1) :
                  /\ OffsetOf(tokens, k) = r[1] - 1
                  /\ tokens[k] = Slice(input_name, r[1], r[1] + r[2] - 2)
                  /\ tokens[k + 1] =
                         Slice(input_name, r[1] + r[2] - 1, r[1] + r[2] + r[3] - 1)
    /\ pc = "format_pascal_words" =>
          \A r \in AcronymRuns(input_name, WordStops \cup {"_"}) :
              /\ SameCharacters(input_name, words)
              /\ GapAfter(words, Ord(input_name, r[1] + r[2] - 2)) = 1
              /\ \A i \in r[1]..(r[1] + r[2] + r[3] - 2) :
                    i # r[1] + r[2] - 2 => GapAfter(words, Ord(input_name, i)) = 0

\* C5 witness: "AABa" is tokenized as "AA", "Ba"
C5_Witness ==
    /\ pc = "tokenize_pascal_case"
    /\ input_name = <<"A", "A", "B", "a">>
    /\ <<1, 3, 1>> \in AcronymRuns(input_name, WordStops)
    /\ tokens = <<<<"A", "A">>, <<"B", "a">>>>

\* the number of characters of the segments in front of segment k
SegmentOffset(segs, k) == Len(Join(SubSeq(segs, 1, k - 1)))

\* C6: lowercase-led segment preservation.  If an underscore-delimited
\* segment begins with a lowercase letter, its part of the output, the
\* inserted spaces removed, is the segment text character for character.
C6_LowercaseLedSegmentPreserved ==
    pc = "format_pascal_words" =>
        LET segs == Segments(input_name)
            flat == Without(words, {" "})
        IN /\ Len(flat) = Len(Join(segs))
           /\ \A k \in 1..Len(segs) :
                 IsLowerChar(segs[k][1]) =>
                     Slice(flat, SegmentOffset(segs, k) + 1,
                           SegmentOffset(segs, k) + Len(segs[k])) = segs[k]

\* C6 witness: the segment "a<e'><E'>" is one unmatched token that
\* title-casing would change, and it is returned as it is
C6_Witness ==
    /\ pc = "format_pascal_words"
    /\ input_name = <<"A", "_", "e'", "E'">>
    /\ TitleCase(<<"e'", "E'">>) # <<"e'", "E'">>
    /\ words = <<"A", " ", "e'", "E'">>

\* every character a lowercase letter
PurelyLowercaseLetters(t) == Len(t) > 0 /\ \A i \in 1..Len(t) : IsLowerChar(t[i])

\* the unit of formatted_tokens that starts after o characters is text
UnitAt(o, text) ==
    \E k \in 1..Len(formatted_tokens) :
        OffsetOf(formatted_tokens, k) = o /\ formatted_tokens[k] = text

\* the output has no space between characters o+1 .. o+len (counted without spaces)
NoSpaceInside(o, len) ==
    \A n \in (o + 1)..(o + len - 1) : GapAfter(words, n) = 0

\* the merge rule; lettersOnly chooses what "a lowercase next token" means:
\* purely lowercase letters, or str.islower().  In every segment, a digit
\* token with a next token is merged with it (one unit, unchanged casing,
\* no space inside) exactly when the next token is lowercase; otherwise
\* the digit token is a unit of its own
MergeRule(lettersOnly) ==
    pc = "format_pascal_words" =>
        LET segs == Segments(input_name) IN
        \A k \in 1..Len(segs) :
            LET toks == tokenize_pascal_case(segs[k]) IN
            \A i \in 1..(Len(toks) - 1) :
                LET o == SegmentOffset(segs, k) + OffsetOf(toks, i) IN
                IsDigitStr(toks[i]) =>
                    IF (IF lettersOnly THEN PurelyLowercaseLetters(toks[i + 1])
                                       ELSE IsLowerStr(toks[i + 1]))
                    THEN /\ UnitAt(o, toks[i] \o toks[i + 1])
                         /\ NoSpaceInside(o, Len(toks[i]) + Len(toks[i + 1]))
                    ELSE UnitAt(o, toks[i])

\* C7 as stated: a digit token is merged with the next token exactly when
\* that token is purely lowercase letters.
C7_Original == MergeRule(TRUE)

\* C7 (amended): a digit token is merged with the next token exactly when
\* that token satisfies str.islower(): it has a lowercase letter and no
\* uppercase letter, and may hold other characters.  The merged unit has
\* no space inside, keeps its casing and is part of no other merge.
C7_DigitLowercaseMerge == MergeRule(FALSE)

\* C7 witness: "1a1a" gives the two merged units "1a" and "1a"
C7_Witness ==
    /\ pc = "format_pascal_words"
    /\ input_name = <<"1", "a", "1", "a">>
    /\ formatted_tokens = <<<<"1", "a">>, <<"1", "a">>>>
    /\ words = <<"1", "a", " ", "1", "a">>

\* s with leading and trailing underscores removed and every run of
\* underscores reduced to its last one
CollapseUnderscores(s) ==
    LET keep(i) ==
            \/ s[i] # "_"
            \/ /\ \E j \in 1..(i - 1) : s[j] # "_"
               /\ \E j \in (i + 1)..Len(s) : s[j] # "_"
               /\ s[i + 1] # "_"
    IN [k \in 1..Len(SelectSeq([j \in 1..Len(s) |-> j], keep)) |->
            s[SelectSeq([j \in 1..Len(s) |-> j], keep)[k]]]

\* C8: underscores are never emitted.  The result of format_pascal_words
\* and both fields of split_family_subfamily hold no underscore; leading,
\* trailing and repeated underscores give no empty token and no extra
\* space: the result is that of the same input with its leading and
\* trailing underscores removed and every run of underscores made one.
C8_UnderscoresNeverEmitted ==
    /\ pc = "format_pascal_words" =>
          /\ ~Contains(words, "_")
          /\ \A k \in 1..Len(formatted_tokens) : formatted_tokens[k] # <<>>
          /\ words = format_pascal_words(CollapseUnderscores(input_name))
    /\ pc = "split_family_subfamily" =>
          /\ ~Contains(pair[1], "_")
          /\ ~Contains(pair[2], "_")

\* C8 witness: "_A__" is returned as "A"
C8_Witness ==
    /\ pc = "format_pascal_words"
    /\ input_name = <<"_", "A", "_", "_">>
    /\ CollapseUnderscores(input_name) = <<"A">>
    /\ words = <<"A">>

\* e is a file extension: letters and digits, at least one, and not the
\* marker's own name
IsExtension(e) ==
    /\ e # <<>>
    /\ e # <<"C", "F", "F", "2">>
    /\ \A i \in 1..Len(e) : e[i] \in AsciiUpper \cup AsciiLower \cup Digits

\* b is a file name stem: not empty, no leading dot
IsStem(b) == b # <<>> /\ b[1] # "."

\* name is b + '.CFF2.' + e for a stem b of cut characters and an extension e
MarkedName(name, cut) ==
    /\ MatchesAt(name, cut + 1, CFF2Infix)
    /\ IsStem(Slice(name, 1, cut))
    /\ IsExtension(Slice(name, cut + Len(CFF2Infix) + 1, Len(name)))

\* name is b + '.CFF2' for a stem b of cut characters
MarkerEndedName(name, cut) ==
    /\ cut + Len(CFF2Suffix) = Len(name)
    /\ MatchesAt(name, cut + 1, CFF2Suffix)
    /\ IsStem(Slice(name, 1, cut))

\* C9: the CFF2 marker is ignored.  For every stem b and extension e,
\* split_family_subfamily(b + '.CFF2.' + e) == split_family_subfamily(b +
\* '.' + e); and for such a name, or one ending in '.CFF2', the normalized
\* base does not keep the marker: it neither holds ".CFF2." nor ends in
\* ".CFF2".  Stated for the default strip_extension=True.
C9_MarkerIgnored ==
    \A cut \in 0..Len(input_name) :
        /\ (pc = "split_family_subfamily" /\ strip_extension
               /\ MarkedName(input_name, cut)) =>
              pair = split_family_subfamily(
                         Slice(input_name, 1, cut) \o <<".">>
                             \o Slice(input_name, cut + Len(CFF2Infix) + 1,
                                      Len(input_name)),
                         strip_extension)
        /\ (pc = "parse_filename" /\ strip_extension
               /\ (MarkedName(input_name, cut) \/ MarkerEndedName(input_name, cut))) =>
              /\ FindFrom(parsed.base, 1, CFF2Infix) = 0
              /\ ~EndsWith(parsed.base, CFF2Suffix)

\* s with every ':' and every backslash replaced by '_'
ForbiddenAsUnderscore(s) ==
    [k \in 1..Len(s) |-> IF s[k] \in {":", "\\"} THEN "_" ELSE s[k]]

\* C10: forbidden characters act as underscore breakpoints.  For every
\* input s, split_family_subfamily(s) is split_family_subfamily of s with
\* every ':' and backslash replaced by '_', and neither character appears
\* in the family or the subfamily.
C10_ForbiddenCharactersAreBreakpoints ==
    pc = "split_family_subfamily" =>
        /\ pair = split_family_subfamily(ForbiddenAsUnderscore(input_name),
                                         strip_extension)
        /\ \A f \in 1..2 : ~Contains(pair[f], ":") /\ ~Contains(pair[f], "\\")

\* C10 witness: "A:a\" gives ("A a", "")
C10_Witness ==
    /\ pc = "split_family_subfamily"
    /\ input_name = <<"A", ":", "a", "\\">>
    /\ pair = <<<<"A", " ", "a">>, <<>>>>

\* at least one character, every one an underscore
OnlyUnderscores(s) == s # <<>> /\ \A i \in 1..Len(s) : s[i] = "_"

\* C11: no entry point has an error outcome.  Every call returns (no
\* exception is raised); format_pascal_words('') is '' and an input made
\* only of underscores gives '', split_family_subfamily('') is ('', ''),
\* and parse_filename('') has every field empty.
C11_NoErrorOutcome ==
    /\ raised = ""
    /\ (pc = "format_pascal_words"
           /\ (input_name = <<>> \/ OnlyUnderscores(input_name))) => words = <<>>
    /\ (pc = "split_family_subfamily" /\ input_name = <<>>) => pair = <<<<>>, <<>>>>
    /\ (pc = "parse_filename" /\ input_name = <<>>) =>
          \A f \in DOMAIN parsed : parsed[f] = <<>>

\* C11 witness: "__" is returned as ''
C11_Witness ==
    /\ pc = "format_pascal_words"
    /\ input_name = <<"_", "_">>
    /\ OnlyUnderscores(input_name)
    /\ raised = ""
    /\ words = <<>>

\* the tokens apply_spacing_rules works on: the non-empty ones
GivenTokens == SelectSeq(input_tokens, LAMBDA t : t # <<>>)

\* the concatenated output of apply_spacing_rules
Concatenated == Join(spaced_tokens)

\* the number of spaces in out directly before token i of toks; the tokens
\* hold no space, and out is their text with spaces added
SpacesBefore(out, toks, i) ==
    IF OffsetOf(toks, i) = 0
    THEN NonSpacePositions(out)[1] - 1
    ELSE GapAfter(out, OffsetOf(toks, i))

\* the number of spaces in out directly after token i of toks
SpacesAfter(out, toks, i) ==
    IF OffsetOf(toks, i + 1) = Len(NonSpacePositions(out))
    THEN Len(out) - NonSpacePositions(out)[Len(NonSpacePositions(out))]
    ELSE GapAfter(out, OffsetOf(toks, i + 1))

\* C12: NO_SPACE tokens are never spaced.  In the concatenated output of
\* apply_spacing_rules a token equal to '*', '@' or an apostrophe has no
\* space directly before it and none directly after it, whatever its
\* neighbours are.
C12_NoSpaceTokensNeverSpaced ==
    pc = "apply_spacing_rules" =>
        \A i \in 1..Len(GivenTokens) :
            GivenTokens[i] \in NO_SPACE =>
                /\ SpacesBefore(Concatenated, GivenTokens, i) = 0
                /\ SpacesAfter(Concatenated, GivenTokens, i) = 0

\* C12 witness: "Ab", "*", "Ab" is concatenated to "Ab*Ab"
C12_Witness ==
    /\ pc = "apply_spacing_rules"
    /\ input_tokens = <<<<"A", "b">>, <<"*">>, <<"A", "b">>>>
    /\ GivenTokens[2] \in NO_SPACE
    /\ Concatenated = <<"A", "b", "*", "A", "b">>

\* C13: TRAILING_SPACE tokens never have a space before them.  In the
\* concatenated output of apply_spacing_rules a token equal to one of
\* ! ? , ; ) ] } is never directly preceded by a space, for every token
\* sequence.
C13_TrailingNeverPreceded ==
    pc = "apply_spacing_rules" =>
        \A i \in 1..Len(GivenTokens) :
            GivenTokens[i] \in TRAILING_SPACE =>
                SpacesBefore(Concatenated, GivenTokens, i) = 0

LeadingRule(trailingToo) ==
    pc = "apply_spacing_rules" =>
        \A i \in 1..Len(GivenTokens) :
            GivenTokens[i] \in LEADING_SPACE =>
                /\ SpacesBefore(Concatenated, GivenTokens, i) =
                       (IF /\ i > 1
                           /\ \/ _is_alphanumeric_token(GivenTokens[i - 1])
                              \/ trailingToo /\ GivenTokens[i - 1] \in TRAILING_SPACE
                        THEN 1 ELSE 0)
                /\ SpacesAfter(Concatenated, GivenTokens, i) = 0

IsRegularToken(t) ==
    t \notin NO_SPACE \cup TRAILING_SPACE \cup LEADING_SPACE \cup {<<"$">>, <<"%">>}

C17_MoneySpaceBefore ==
    pc = "apply_spacing_rules" =>
        \A i \in 2..Len(GivenTokens) :
            GivenTokens[i] \in {<<"$">>, <<"%">>} =>
                /\ _is_numeric_token(GivenTokens[i - 1]) =>
                      SpacesBefore(Concatenated, GivenTokens, i) = 0
                /\ _is_alphanumeric_token(GivenTokens[i - 1]) =>
                      SpacesBefore(Concatenated, GivenTokens, i) = 1

\* C17 witness: "Ab", "$", "1.5" gives "Ab $1.5" and "1.5", "$" gives "1.5$"
C17_Witness ==
    /\ pc = "apply_spacing_rules"
    /\ input_tokens = <<<<"A", "b">>, <<"1", ".", "5">>, <<"$">>>>
    /\ _is_numeric_token(GivenTokens[2])
    /\ Concatenated = <<"A", "b", " ", "1", ".", "5", "$">>

\* C18: a '%' token is directly followed by a space if and only if a next
\* token exists and begins with a letter; a following number or
\* punctuation is not spaced, nor is the end.
C18_PercentSpaceAfter ==
    pc = "apply_spacing_rules" =>
        \A i \in 1..Len(GivenTokens) :
            GivenTokens[i] = <<"%">> =>
                SpacesAfter(Concatenated, GivenTokens, i) =
                    (IF i < Len(GivenTokens) /\ _is_alphanumeric_token(GivenTokens[i + 1])
                     THEN 1 ELSE 0)

\* C18 witness: "1", "%", "Ab" is concatenated to "1% Ab"
C18_Witness ==
    /\ pc = "apply_spacing_rules"
    /\ input_tokens = <<<<"1">>, <<"%">>, <<"A", "b">>>>
    /\ _is_alphanumeric_token(GivenTokens[3])
    /\ Concatenated = <<"1", "%", " ", "A", "b">>

\* nothing, or one space
AtMostOneSpace == {<<>>, <<" ">>}

\* C19: apply_spacing_rules returns one string per non-empty input token,
\* in the same order, each the token text with at most one space prepended
\* and at most one appended; the first has none prepended and the last
\* none appended.
C19_OneStringPerToken ==
    pc = "apply_spacing_rules" =>
        /\ Len(spaced_tokens) = Len(GivenTokens)
        /\ \A i \in 1..Len(GivenTokens) :
              \E before \in AtMostOneSpace, after \in AtMostOneSpace :
                  /\ spaced_tokens[i] = before \o GivenTokens[i] \o after
                  /\ i = 1 => before = <<>>
                  /\ i = Len(GivenTokens) => after = <<>>

\* C19 witness: "!", "", "Ab" gives the two strings "! " and "Ab"
C19_Witness ==
    /\ pc = "apply_spacing_rules"
    /\ input_tokens = <<<<"!">>, <<>>, <<"A", "b">>>>
    /\ Len(GivenTokens) = 2
    /\ spaced_tokens = <<<<"!", " ">>, <<"A", "b">>>>

\* C20: normalize_style_and_slope_for_id1_id4 is idempotent: applied to
\* its own result (style, slope) with the same options it returns that
\* same (style, slope).
C20_Idempotent ==
    pc = "normalize_style_and_slope_for_id1_id4" =>
        normalize_style_and_slope_for_id1_id4(normalized[1], normalized[2], options)
            = normalized

\* a capital, a digit, then digits and dots, every dot between two digits
IsCapNumber(t) ==
    /\ Len(t) >= 2
    /\ t[1] \in AsciiUpper
    /\ t[2] \in Digits
    /\ \A j \in 3..Len(t) :
          \/ t[j] \in Digits
          \/ t[j] = "." /\ t[j - 1] \in Digits /\ At(t, j + 1) \in Digits

\* the positions of s where a capital that follows no capital is followed by a digit
CapNumberStarts(s) ==
    {i \in 1..(Len(s) - 1) : /\ s[i] \in AsciiUpper
                             /\ s[i + 1] \in Digits
                             /\ At(s, i - 1) \notin AsciiUpper}

\* C23: no token of tokenize_pascal_case that begins with a capital and a
\* digit starts right after another ASCII capital of the input, and every
\* capital that follows no capital and is followed by a digit starts one
\* token that holds the capital and the whole dotted number after it.
C23_CapNumberNotInsideCaps ==
    pc = "tokenize_pascal_case" =>
        /\ \A k \in 1..Len(tokens) :
              At(tokens[k], 1) \in AsciiUpper /\ At(tokens[k], 2) \in Digits
                  => At(input_name, OffsetOf(tokens, k)) \notin AsciiUpper
        /\ \A i \in CapNumberStarts(input_name) :
              \E k \in 1..Len(tokens) :
                  LET stop == OffsetOf(tokens, k) + Len(tokens[k]) IN
                  /\ OffsetOf(tokens, k) = i - 1
                  /\ IsCapNumber(tokens[k])
                  /\ At(input_name, stop + 1) \notin Digits
                  /\ ~(At(input_name, stop + 1) = "." /\ At(input_name, stop + 2) \in Digits)

\* C23 witness: in "AB1" the capital B follows the capital A, and the
\* tokens are the run "AB" and the number "1"
C23_Witness ==
    /\ pc = "tokenize_pascal_case"
    /\ input_name = <<"A", "B", "1">>
    /\ tokens = <<<<"A", "B">>, <<"1">>>>

\* the positions of s where a letter of a word is immediately followed by a
\* lowercase letter: a capital or a lowercase letter, then a lowercase letter
InsideWord(s) ==
    {i \in 1..(Len(s) - 1) : /\ s[i] \in AsciiUpper \cup AsciiLower
                             /\ s[i + 1] \in AsciiLower}

\* C24: format_pascal_words never puts a space inside a capitalized word:
\* none between an ASCII capital and the lowercase letter that follows it,
\* and none between two adjacent ASCII lowercase letters, whatever
\* character follows the word.
C24_WordIntegrity ==
    pc = "format_pascal_words" =>
        \A i \in InsideWord(input_name) :
            GapAfter(words, Ord(input_name, i)) = 0

\* every character of s is an ASCII character that is no whitespace
AsciiWithoutWhitespace(s) ==
    \A i \in 1..Len(s) : s[i] \notin UnicodeUpper \cup UnicodeLower \cup Whitespace

\* C25: for an input of ASCII characters without whitespace,
\* format_pascal_words changes no character and no case: the output without
\* its spaces is the input without its underscores, in the same order.
C25_CharactersUnchanged ==
    pc = "format_pascal_words" /\ AsciiWithoutWhitespace(input_name)
        => Without(words, {" "}) = Without(input_name, {"_"})

\* C25 witness: "Ab_B" is returned as "Ab B": the token "Ab" is title-cased
\* to itself, the underscore is gone and a space is inserted
C25_Witness ==
    /\ pc = "format_pascal_words"
    /\ input_name = <<"A", "b", "_", "B">>
    /\ formatted_tokens = <<<<"A", "b">>, <<"B">>>>
    /\ TitleCase(formatted_tokens[1]) = formatted_tokens[1]
    /\ words = <<"A", "b", " ", "B">>

\* s holds no whitespace character
WithoutWhitespace(s) == \A i \in 1..Len(s) : s[i] \notin Whitespace

\* C26: for an input without whitespace the output of format_pascal_words
\* holds no two consecutive spaces and neither begins nor ends with a space.
C26_SingleSpaces ==
    pc = "format_pascal_words" /\ WithoutWhitespace(input_name) =>
        /\ \A j \in 1..(Len(words) - 1) : ~(words[j] = " " /\ words[j + 1] = " ")
        /\ words # <<>> => words[1] # " " /\ words[Len(words)] # " "

\* C26 witness: in "A!a%" the token "!" adds a space after itself and the
\* token "a" adds none before itself: one space stands between them
C26_Witness ==
    /\ pc = "format_pascal_words"
    /\ input_name = <<"A", "!", "a", "%">>
    /\ words = <<"A", "!", " ", "a", " ", "%">>

\* pairs <<i, j>>: a digit at i ends one underscore segment of s and the
\* lowercase letter at j starts the next one
DigitUnderscoreLower(s) ==
    {p \in (1..Len(s)) \X (1..Len(s)) :
        /\ p[1] + 1 < p[2]
        /\ s[p[1]] \in Digits
        /\ \A k \in (p[1] + 1)..(p[2] - 1) : s[k] = "_"
        /\ s[p[2]] \in AsciiLower}

\* positions i where a run of digits that begins a segment or follows a
\* lowercase letter ends, a lowercase letter following it directly
DigitRunThenLower(s) ==
    {i \in 1..(Len(s) - 1) :
        /\ s[i] \in Digits
        /\ s[i + 1] \in AsciiLower
        /\ \E p \in 1..i :
              /\ \A k \in p..i : s[k] \in Digits
              /\ At(s, p - 1) \in {"", "_"} \cup AsciiLower}

\* C27: the digit-lowercase merge does not cross an underscore: a digit
\* that ends one segment and the lowercase letter that starts the next are
\* in two tokens with exactly one space between them, whereas a digit run
\* directly followed by a lowercase letter in one segment is merged with it.
C27_MergeStaysInsideSegment ==
    pc = "format_pascal_words" /\ AsciiWithoutWhitespace(input_name) =>
        /\ \A p \in DigitUnderscoreLower(input_name) :
              /\ GapAfter(words, Ord(input_name, p[1])) = 1
              /\ \E k \in 2..Len(formatted_tokens) :
                     OffsetOf(formatted_tokens, k) = Ord(input_name, p[1])
        /\ \A i \in DigitRunThenLower(input_name) :
              /\ GapAfter(words, Ord(input_name, i)) = 0
              /\ ~\E k \in 2..Len(formatted_tokens) :
                      OffsetOf(formatted_tokens, k) = Ord(input_name, i)

\* C27 witness: "1_a" gives the tokens "1" and "a" and the output "1 a"
C27_Witness ==
    /\ pc = "format_pascal_words"
    /\ input_name = <<"1", "_", "a">>
    /\ formatted_tokens = <<<<"1">>, <<"a">>>>
    /\ words = <<"1", " ", "a">>

\* the number of spaces apply_spacing_rules puts between two tokens that
\* are handed to it alone
SpacesBetween(left, right) ==
    Len(Join(apply_spacing_rules(<<left, right>>))) - Len(left) - Len(right)

\* positions k of formatted_tokens whose token ends an underscore segment
\* of s, token k + 1 starting the next one
SegmentEnds(s, toks) ==
    {k \in 1..(Len(toks) - 1) :
        \E i \in 1..(Len(s) - 1) :
            /\ s[i] # "_"
            /\ s[i + 1] = "_"
            /\ Ord(s, i) = OffsetOf(toks, k + 1)}

\* C28: spacing is decided over the concatenated token list: between any
\* two adjacent tokens of formatted_tokens, the last token of one underscore
\* segment and the first of the next included, the output holds as many
\* spaces as the spacing rules put between these two tokens alone.
C28_SpacingIgnoresSegments ==
    pc = "format_pascal_words" /\ WithoutWhitespace(input_name) =>
        \A k \in 1..(Len(formatted_tokens) - 1) :
            GapAfter(words, OffsetOf(formatted_tokens, k + 1))
                = SpacesBetween(formatted_tokens[k], formatted_tokens[k + 1])

\* C28 witness: in "A*_B" the token "*" ends a segment and "B" starts the
\* next; no space stands between them in the output "A*B"
C28_Witness ==
    /\ pc = "format_pascal_words"
    /\ input_name = <<"A", "*", "_", "B">>
    /\ formatted_tokens = <<<<"A">>, <<"*">>, <<"B">>>>
    /\ 2 \in SegmentEnds(input_name, formatted_tokens)
    /\ SpacesBetween(<<"*">>, <<"B">>) = 0
    /\ words = <<"A", "*", "B">>

\* the issues the two validations of PEDANTIC mode report on a font
ValidationIssues(fnt) == _validate_stat_structure(fnt) \o _validate_axis_defaults(fnt)

\* C21: in PEDANTIC mode is_variable_font returns True exactly when the
\* font has fvar and STAT and the validation of the STAT structure and of
\* the axis defaults finds no issue; with an issue it returns False.
C21_PedanticValidates ==
    pc = "is_variable_font" /\ font_mode = PEDANTIC =>
        is_variable = (/\ "fvar" \in font.tables
                       /\ "STAT" \in font.tables
                       /\ ValidationIssues(font) = <<>>)

(***************************************************************************)
(* C22.  collect_font_files returns a de-duplicated list, sorted           *)
(* ascending, of absolute paths: exactly the given files and the files of  *)
(* the given directories whose extension is in the allowed set, compared   *)
(* case-insensitively; a path given in relative form is returned in        *)
(* absolute form.                                                          *)
(***************************************************************************)
\* the files of directory dir: its own, and with recursive those below it
FilesOf(fs, dir, recursive) ==
    {f \in fs :
        /\ Len(f) > Len(dir) + 1
        /\ Slice(f, 1, Len(dir) + 1) = dir \o <<"/">>
        /\ recursive \/ ~Contains(Slice(f, Len(dir) + 2, Len(f)), "/")}

\* the absolute paths the call is to return
ExpectedFiles(fs, given) ==
    {f \in UNION {IF AbsoluteOf(given.paths[k]) \in fs
                  THEN {AbsoluteOf(given.paths[k])}
                  ELSE IF AbsoluteOf(given.paths[k]) \in Directories
                  THEN FilesOf(fs, AbsoluteOf(given.paths[k]), given.recursive)
                  ELSE {} : k \in 1..Len(given.paths)} :
        Lower(NameSuffix(Basename(f)))
            \in {Lower(e) : e \in AllowedOr(given.allowed_extensions)}}

C22_AbsoluteSortedExact ==
    pc = "collect_font_files" =>
        /\ \A i \in 1..(Len(collected) - 1) : StrLess(collected[i], collected[i + 1])
        /\ \A i \in 1..Len(collected) : IsAbsolute(collected[i])
        /\ {collected[i] : i \in 1..Len(collected)} = ExpectedFiles(files, collector_arguments)

(***************************************************************************)
(* C29.  After any sequence of add_error and clear calls get_summary is    *)
(* consistent: total_errors is the sum of recoverable_errors and           *)
(* non_recoverable_errors, the sum of the by_context counts and the sum of *)
(* the by_severity counts; files_with_errors is the number of distinct     *)
(* non-empty filepaths of the tracked errors; get_errors_by_context and    *)
(* get_errors_for_file return the tracked errors of their key in insertion *)
(* order; after clear every count is 0.  It holds for the non-empty        *)
(* filepaths: an error whose filepath is the empty str is tracked and      *)
(* counted, yet get_errors_for_file("") returns no error.                  *)
(***************************************************************************)
\* the sum of the values of a dict of counts
RECURSIVE SumCounts(_)
SumCounts(counts) ==
    IF DOMAIN counts = {} THEN 0
    ELSE LET key == CHOOSE k \in DOMAIN counts : TRUE
         IN counts[key] + SumCounts([k \in DOMAIN counts \ {key} |-> counts[k]])

\* the counts of summary agree with each other and with the tracked errors
CountsAgree(summary, errors) ==
    /\ summary.total_errors = Len(errors)
    /\ summary.total_errors = summary.recoverable_errors + summary.non_recoverable_errors
    /\ summary.total_errors = SumCounts(summary.by_context)
    /\ summary.total_errors = SumCounts(summary.by_severity)
    /\ \A ctx \in DOMAIN summary.by_context : summary.by_context[ctx] > 0
    /\ summary.files_with_errors =
           Cardinality({errors[i].filepath : i \in 1..Len(errors)} \ {None, <<>>})

\* every count of summary is 0
CountsZero(summary) ==
    /\ summary.total_errors = 0
    /\ summary.recoverable_errors = 0
    /\ summary.non_recoverable_errors = 0
    /\ SumCounts(summary.by_context) = 0
    /\ \A sev \in ErrorSeverity : summary.by_severity[sev] = 0
    /\ summary.files_with_errors = 0

\* get_errors_by_context returns the tracked errors of every context in order
ContextQueriesAgree(self) ==
    \A ctx \in ErrorContext :
        get_errors_by_context(self, ctx) = SelectSeq(self.errors, LAMBDA e : e.context = ctx)

\* get_errors_for_file returns the tracked errors of filepath in order
FileQueryAgrees(self, filepath) ==
    get_errors_for_file(self, filepath) =
        SelectSeq(self.errors, LAMBDA e : e.filepath = filepath)

\* the statement for every str key, the empty one included
C29_SummaryConsistentEveryKey ==
    pc \in {"add_error", "clear"} =>
        /\ CountsAgree(get_summary(tracker), tracker.errors)
        /\ ContextQueriesAgree(tracker)
        /\ \A filepath \in FilePaths \ {None} : FileQueryAgrees(tracker, filepath)
        /\ pc = "clear" => CountsZero(get_summary(tracker))

\* the statement for the non-empty filepaths; the empty one has no errors
C29_SummaryConsistent ==
    pc \in {"add_error", "clear"} =>
        /\ CountsAgree(get_summary(tracker), tracker.errors)
        /\ ContextQueriesAgree(tracker)
        /\ \A filepath \in FilePaths \ {None, <<>>} : FileQueryAgrees(tracker, filepath)
        /\ get_errors_for_file(tracker, <<>>) = <<>>
        /\ pc = "clear" => CountsZero(get_summary(tracker))

\* two errors of one file are tracked, one recoverable and one not, in two contexts
C29_Witness ==
    /\ pc = "add_error"
    /\ Len(tracker.errors) = 2
    /\ tracker.errors[1].filepath = <<"a">>
    /\ tracker.errors[2].filepath = <<"a">>
    /\ tracker.errors[1].recoverable /\ ~tracker.errors[2].recoverable
    /\ tracker.errors[1].context # tracker.errors[2].context
    /\ get_summary(tracker).files_with_errors = 1

(***************************************************************************)
(* C30.  allocate_private_name_id_ttx returns the smallest integer >=      *)
(* start (256 by default) that is not the nameID of any namerecord of the  *)
(* table; so after any sequence of create_private_namerecord_ttx calls on  *)
(* one table every call returned an id that was unused when it was         *)
(* allocated, the returned ids are pairwise distinct, and no pre-existing  *)
(* namerecord is overwritten or removed.                                   *)
(***************************************************************************)
\* the greatest id a call can reach
IdLimit == 256 + MaxRecords + MaxCreates + 1

\* the ids that are the nameID of a namerecord of table
NameIDsOf(table) ==
    LET attributes ==
            {table[k].nameID : k \in {j \in 1..Len(table) : table[j].tag = "namerecord"}}
    IN {n \in 0..IdLimit : Str(n) \in attributes}

\* n is the smallest integer >= start outside used
SmallestFree(n, start, used) ==
    /\ n >= start
    /\ n \notin used
    /\ \A m \in start..(n - 1) : m \in used

\* sub is what is left of table when some of its elements are taken out
RECURSIVE IsSubsequence(_, _)
IsSubsequence(sub, table) ==
    IF sub = <<>> THEN TRUE
    ELSE IF table = <<>> THEN FALSE
    ELSE IF Head(sub) = Head(table) THEN IsSubsequence(Tail(sub), Tail(table))
    ELSE IsSubsequence(sub, Tail(table))

\* the ids in use when the k-th create call was made: those of the loaded
\* table and those created before
UsedBefore(k) == NameIDsOf(original_table) \cup {returned_ids[j] : j \in 1..(k - 1)}

C30_PrivateIdsAreFresh ==
    /\ pc = "allocate_private_name_id_ttx" =>
           SmallestFree(allocated.nid, allocated.start, NameIDsOf(ttx_name_table))
    /\ \A k \in 1..Len(returned_ids) : SmallestFree(returned_ids[k], 256, UsedBefore(k))
    /\ \A j, k \in 1..Len(returned_ids) : j # k => returned_ids[j] # returned_ids[k]
    /\ IsSubsequence(original_table, ttx_name_table)
    /\ Len(ttx_name_table) = Len(original_table) + Len(returned_ids)
    /\ NameIDsOf(ttx_name_table) = UsedBefore(Len(returned_ids) + 1)

\* the loaded table uses 257 and a nameID that is no integer; three records
\* were created around it
C30_Witness ==
    /\ pc = "create_private_namerecord_ttx"
    /\ NameIDsOf(original_table) = {257}
    /\ \E k \in 1..Len(original_table) : original_table[k].nameID = <<"x">>
    /\ returned_ids = <<256, 258, 259>>

====
